---- MODULE Spec2Model ----
(***************************************************************************)
(* A model of OllamaContentGenerator                                       *)
(* (packages/core/src/ollama/ollamaContentGenerator.ts): the adapter that  *)
(* translates generate / stream / embed / model-discovery calls to the     *)
(* Ollama HTTP endpoints.  One behaviour of the model is one call on the   *)
(* adapter, from the call to its return, its throw, or the end of its      *)
(* stream.  The backend (fetch, the response body, the reader) is the      *)
(* environment: its answers are drawn from small sets.  A second           *)
(* specification, ConcurrentSpec, has two streams of one adapter running   *)
(* at once.                                                                *)
(***************************************************************************)
EXTENDS Integers, Sequences, FiniteSets, TLC

VARIABLES
  op,        \* the public method that was called ("none" before the call)
  request,   \* its argument
  pc,        \* where the call stands
  http,      \* the HTTP requests sent so far, in order
  reported,  \* the calls made to reportError, in order
  result,    \* what the call returned or threw
  generator, \* streaming: the generator function generateContentStream returned
  body,      \* streaming: the whole text of the response body
  wire,      \* streaming: the part of body the reader has not delivered yet
  buffer,    \* streaming: `buffer`
  lines,     \* streaming: the rest of `lines` the for loop has not visited yet
  yielded,   \* streaming: the responses yielded to the consumer, in order
  demand,    \* streaming: the consumer has called next() and awaits its result
  aborted,   \* the caller's AbortSignal has fired
  fetched,   \* how the call's fetch settled
  answer,    \* a non-streaming call: the body the backend answered with
  adapter,   \* the adapter's fields: this.ollamaHost, this.model
  streams    \* two streams at once: the locals of each generator call

vars == <<op, request, pc, http, reported, result, generator, body, wire,
          buffer, lines, yielded, demand, aborted, fetched, answer, adapter,
          streams>>

(***************************************************************************)
(* Bounds of the model.                                                    *)
(***************************************************************************)
\* The body of a streaming answer is made of at most MaxLines segments.
MaxLines == 2
\* A chat message carries at most MaxToolCalls tool calls.
MaxToolCalls == 2

(***************************************************************************)
(* Text.  A text is a sequence of characters (one-character strings), so   *)
(* that it can be cut, split on "\n" and trimmed as the code does.         *)
(***************************************************************************)
IsWhitespace(c) == c \in {" ", "\n", "\r", "\t"}

RECURSIVE TrimStart(_)
TrimStart(s) ==
  IF s # <<>> /\ IsWhitespace(Head(s)) THEN TrimStart(Tail(s)) ELSE s

RECURSIVE TrimEnd(_)
TrimEnd(s) ==
  IF s # <<>> /\ IsWhitespace(s[Len(s)])
  THEN TrimEnd(SubSeq(s, 1, Len(s) - 1))
  ELSE s

\* String.prototype.trim
Trim(s) == TrimEnd(TrimStart(s))

(***************************************************************************)
(* JSON.  An object is the sequence of its <<key, value>> members.  In a   *)
(* JSON text every member (or group of members) is written as one          *)
(* character, so a document is "{", member characters, "}"; any other text *)
(* is a syntax error.                                                      *)
(***************************************************************************)
Has(obj, key) == \E i \in 1..Len(obj) : obj[i][1] = key

Get(obj, key) ==
  obj[CHOOSE i \in 1..Len(obj) :
        /\ obj[i][1] = key
        /\ \A j \in (i + 1)..Len(obj) : obj[j][1] # key][2]

\* x ? ... : ... on a boolean member that may be absent
Truthy(obj, key) == Has(obj, key) /\ Get(obj, key) = TRUE

\* a member that may be undefined: <<>> when absent, <<value>> when present
Optional(obj, key) == IF Has(obj, key) THEN <<Get(obj, key)>> ELSE <<>>

\* x || 0 on an optional count
OrZero(o) == IF o = <<>> THEN 0 ELSE o[1]

\* tool-call arguments as the backend sends them: a string or a map
StringArguments(chars) == [typeof |-> "string", chars |-> chars]
ObjectArguments(value) == [typeof |-> "object", value |-> value]

ToolCall(name, arguments) ==
  << <<"function", << <<"name", name>>, <<"arguments", arguments>> >> >> >>

Message(content, tool_calls) ==
  << <<"role", "assistant">>, <<"content", content>> >>
    \o (IF tool_calls = <<>> THEN <<>> ELSE << <<"tool_calls", tool_calls>> >>)

\* The members each member character stands for.
Member(ch) ==
  CASE ch = "r" -> << <<"response", "Hi">> >>
    [] ch = "d" -> << <<"done", TRUE>> >>
    [] ch = "f" -> << <<"done", FALSE>> >>
    [] ch = "p" -> << <<"prompt_eval_count", 10>> >>
    [] ch = "e" -> << <<"eval_count", 5>> >>
    [] ch = "k" -> << <<"k", "v">> >>
    [] ch = "m" -> << <<"message", Message("Hi", <<>>)>> >>
    [] ch = "c" -> << <<"message",
                       Message("", <<ToolCall("f",
                                       ObjectArguments(<< <<"k", "v">> >>))>>)>> >>
    [] ch = "s" -> << <<"message",
                       Message("", <<ToolCall("g",
                                       StringArguments(<<"{", "k", "}">>))>>)>> >>
    [] ch = "z" -> << <<"message",
                       Message("", <<ToolCall("h",
                                       StringArguments(<<"{", "k">>))>>)>> >>

MemberChars == {"r", "d", "f", "p", "e", "k", "m", "c", "s", "z"}

RECURSIVE Members(_)
Members(chars) ==
  IF chars = <<>> THEN <<>> ELSE Member(Head(chars)) \o Members(Tail(chars))

\* JSON.parse: [ok |-> TRUE, value |-> the object], or ok = FALSE for the
\* SyntaxError it throws.
JSONParse(text) ==
  LET t == Trim(text) IN
  IF /\ Len(t) >= 2
     /\ t[1] = "{"
     /\ t[Len(t)] = "}"
     /\ \A i \in 2..(Len(t) - 1) : t[i] \in MemberChars
  THEN [ok |-> TRUE, value |-> Members(SubSeq(t, 2, Len(t) - 1))]
  ELSE [ok |-> FALSE, value |-> <<>>]

(***************************************************************************)
(* Errors.  A message is a sequence of text fragments, so that "contains"  *)
(* can be decided.                                                         *)
(***************************************************************************)
NoError == [name |-> "none", message |-> <<>>]
NetworkError == [name |-> "TypeError", message |-> <<"fetch failed">>]
ConnectionLost == [name |-> "TypeError", message |-> <<"terminated">>]
AbortError == [name |-> "AbortError", message |-> <<"This operation was aborted">>]
SyntaxError == [name |-> "SyntaxError", message |-> <<"Unexpected token in JSON">>]
TypeError == [name |-> "TypeError", message |-> <<"Cannot read properties of undefined">>]
ApiError(status) == [name |-> "Error", message |-> <<"Ollama API error: ", status>>]
NoBodyError == [name |-> "Error", message |-> <<"No response body from Ollama">>]

\* utils/errors.js: the message of an Error
getErrorMessage(error) == error.message

Returns(value) == [ok |-> TRUE, value |-> value]
Throws(error) == [ok |-> FALSE, error |-> error]

NoResult == [kind |-> "none"]
Returned(value) == [kind |-> "returned", value |-> value]
Thrown(message) == [kind |-> "thrown", message |-> message]

(***************************************************************************)
(* Requests.  config.tools is <<>> when absent and <<list>> when present;  *)
(* a Tool holds its function declarations.                                 *)
(***************************************************************************)
Weather == [name |-> "get_weather", description |-> "weather", parameters |-> "schema"]
Clock == [name |-> "get_time", description |-> "", parameters |-> ""]

ToolLists ==
  { <<>>,
    << [functionDeclarations |-> <<Weather>>] >>,
    << [functionDeclarations |-> <<>>] >>,
    << [functionDeclarations |-> <<Weather, Clock>>],
       [functionDeclarations |-> <<>>] >> }

SeqsUpTo(S, n) == UNION { [1..k -> S] : k \in 0..n }

RECURSIVE Concat(_)
Concat(ss) == IF ss = <<>> THEN <<>> ELSE Head(ss) \o Concat(Tail(ss))

(***************************************************************************)
(* Contents and the completion-path prompt.  request.contents is one item  *)
(* or an array of items; an item is a string or a Content {role, parts}; a *)
(* part holds a text, a function response, or something else.              *)
(***************************************************************************)
\* A conversation holds at most MaxTurns items.
MaxTurns == 2

HelloWorld == <<"H", "e", "l", "l", "o", " ", "w", "o", "r", "l", "d">>

StringContent(chars) == [chars |-> chars]
Turn(role, parts) == [role |-> role, parts |-> parts]
TextPart(chars) == [text |-> chars]
\* a value held by a function response: a string or an object, which is the
\* sequence of its <<key, value>> members
JSString(chars) == [typeof |-> "string", chars |-> chars]
JSObject(members) == [typeof |-> "object", members |-> members]

\* functionResponse.response is <<>> when absent and <<object>> when present
FunctionResponsePart(name, response) ==
  [functionResponse |-> [name |-> name, response |-> response]]

ArrayContents(items) == [isArray |-> TRUE, items |-> items]
SingleContent(item) == [isArray |-> FALSE, items |-> <<item>>]

\* Array.isArray(request.contents) ? request.contents : [request.contents]
ContentList(contents) == contents.items

\* typeof content === 'string'
IsString(content) == "chars" \in DOMAIN content

\* 'role' in content && 'parts' in content && content.parts
HasParts(content) == {"role", "parts"} \subseteq DOMAIN content

Turns ==
  { StringContent(HelloWorld),
    Turn("user", <<TextPart(HelloWorld)>>),
    Turn("user", <<TextPart(<<"H", "i">>), TextPart(<<" ">>)>>),
    Turn("model", <<TextPart(<<"Y", "o">>)>>),
    Turn("user", <<TextPart(<<"o", "k">>),
                   FunctionResponsePart("get_weather",
                     <<JSObject(<< <<"k", JSString(<<"v">>)>> >>)>>)>>),
    Turn("function", <<TextPart(<<"o", "k">>)>>),
    Turn("user", <<>>),
    [role |-> "user"] }

Conversations == SeqsUpTo(Turns, MaxTurns)

\* extractTextFromParts
extractTextFromParts(parts) ==
  Concat([i \in 1..Len(parts) |->
            IF "text" \in DOMAIN parts[i] THEN parts[i].text ELSE <<>>])

\* what one item of the contents adds to the prompt
PromptPiece(content) ==
  IF IsString(content) THEN content.chars \o <<"\n">>
  ELSE IF HasParts(content)
    THEN LET text == extractTextFromParts(content.parts) IN
         IF content.role = "user" THEN text \o <<"\n">>
         ELSE IF content.role = "model"
           THEN <<"A", "s", "s", "i", "s", "t", "a", "n", "t", ":", " ">>
                  \o text \o <<"\n", "H", "u", "m", "a", "n", ":", " ">>
         ELSE <<>>
  ELSE <<>>

\* the systemInstruction convertToOllamaFormat returns: <<>> when undefined,
\* <<text>> for a non-empty string and for a Content with parts
SystemInstruction(config) ==
  IF "systemInstruction" \notin DOMAIN config THEN <<>>
  ELSE IF IsString(config.systemInstruction)
    THEN (IF config.systemInstruction.chars # <<>>
          THEN <<config.systemInstruction.chars>> ELSE <<>>)
  ELSE IF "parts" \in DOMAIN config.systemInstruction
    THEN <<extractTextFromParts(config.systemInstruction.parts)>>
  ELSE <<>>

\* a builder that returns the accumulated prompt as it is
convertToOllamaFormatUntrimmed(req) ==
  LET contents == ContentList(req.contents) IN
  [prompt |-> Concat([i \in 1..Len(contents) |-> PromptPiece(contents[i])]),
   systemInstruction |-> SystemInstruction(req.config)]

\* convertToOllamaFormat
convertToOllamaFormat(req) ==
  LET contents == ContentList(req.contents) IN
  [prompt |-> Trim(Concat([i \in 1..Len(contents) |-> PromptPiece(contents[i])])),
   systemInstruction |-> SystemInstruction(req.config)]

(***************************************************************************)
(* The chat-path messages and tools.                                       *)
(***************************************************************************)
\* x || ... on a string or an object: the empty string is falsy
JSTruthy(value) == value.typeof = "object" \/ value.chars # <<>>

\* response?.output || response || {}
ResponseValue(functionResponse) ==
  IF functionResponse.response = <<>> THEN JSObject(<<>>)
  ELSE LET response == functionResponse.response[1] IN
       IF /\ Has(response.members, "output")
          /\ JSTruthy(Get(response.members, "output"))
       THEN Get(response.members, "output")
       ELSE response

\* extractFunctionResponses
RECURSIVE extractFunctionResponses(_)
extractFunctionResponses(parts) ==
  IF parts = <<>> THEN <<>>
  ELSE (IF "functionResponse" \in DOMAIN Head(parts)
        THEN << [name |-> Head(parts).functionResponse.name,
                 response |-> ResponseValue(Head(parts).functionResponse)] >>
        ELSE <<>>) \o extractFunctionResponses(Tail(parts))

\* the characters of a string as JSON.stringify writes them between quotes
Escape(chars) ==
  Concat([i \in 1..Len(chars) |->
            IF chars[i] \in {"\"", "\\"} THEN <<"\\", chars[i]>>
            ELSE IF chars[i] = "\n" THEN <<"\\", "n">>
            ELSE <<chars[i]>>])

\* JSON.stringify; a key is written as one fragment of the text
RECURSIVE JSONStringify(_)
JSONStringify(value) ==
  IF value.typeof = "string" THEN <<"\"">> \o Escape(value.chars) \o <<"\"">>
  ELSE LET members == value.members IN
       <<"{">>
         \o Concat([i \in 1..Len(members) |->
                      (IF i > 1 THEN <<",">> ELSE <<>>)
                        \o <<"\"", members[i][1], "\"", ":">>
                        \o JSONStringify(members[i][2])])
         \o <<"}">>

\* a tool message whose content is always the JSON serialisation
ToolMessageStringified(response) ==
  [role |-> "tool", content |-> JSONStringify(response.response)]

\* the message pushed for one function response
ToolMessage(response) ==
  [role |-> "tool",
   content |-> IF response.response.typeof = "string"
               THEN response.response.chars
               ELSE JSONStringify(response.response)]

\* the messages of a turn, were its text pushed before its function responses
TurnMessagesWithText(content) ==
  IF IsString(content) THEN << [role |-> "user", content |-> content.chars] >>
  ELSE IF HasParts(content)
    THEN LET messageContent == extractTextFromParts(content.parts)
             functionResponses == extractFunctionResponses(content.parts)
         IN
         (IF messageContent # <<>>
          THEN << [role |-> IF content.role = "model" THEN "assistant"
                            ELSE content.role,
                   content |-> messageContent] >>
          ELSE <<>>)
           \o [i \in 1..Len(functionResponses) |->
                 ToolMessage(functionResponses[i])]
  ELSE <<>>

\* convertToChatFormat, one turn of the loop over the contents
TurnMessages(content) ==
  IF IsString(content) THEN << [role |-> "user", content |-> content.chars] >>
  ELSE IF HasParts(content)
    THEN LET role == IF content.role = "model" THEN "assistant"
                     ELSE content.role
             messageContent == extractTextFromParts(content.parts)
             functionResponses == extractFunctionResponses(content.parts)
         IN
         IF Len(functionResponses) > 0
         THEN [i \in 1..Len(functionResponses) |->
                 ToolMessage(functionResponses[i])]
         ELSE IF messageContent # <<>>
           THEN << [role |-> role, content |-> messageContent] >>
         ELSE <<>>
  ELSE <<>>

\* the text of config.systemInstruction: a string, a Content with parts, or
\* anything else, which gives no text
SystemText(config) ==
  IF "systemInstruction" \notin DOMAIN config THEN <<>>
  ELSE IF IsString(config.systemInstruction)
    THEN config.systemInstruction.chars
  ELSE IF "parts" \in DOMAIN config.systemInstruction
    THEN extractTextFromParts(config.systemInstruction.parts)
  ELSE <<>>

\* x || default on a member of a declaration: absent and "" are falsy
Given(func, key) == key \in DOMAIN func /\ func[key] # ""

\* one entry of the backend tool list, with no defaults
OllamaToolUndefaulted(func) ==
  [type |-> "function",
   function |-> [name |-> func.name,
                 description |-> IF Given(func, "description")
                                 THEN func.description ELSE "undefined",
                 parameters |-> IF Given(func, "parameters")
                                THEN func.parameters ELSE "undefined"]]

\* one entry of the backend tool list: description || '', parameters || {}
OllamaTool(func) ==
  [type |-> "function",
   function |-> [name |-> func.name,
                 description |-> IF Given(func, "description")
                                 THEN func.description ELSE "",
                 parameters |-> IF Given(func, "parameters")
                                THEN func.parameters ELSE "{}"]]

\* the entries one Tool gives: its declared functions that have a name
RECURSIVE FunctionTools(_)
FunctionTools(declarations) ==
  IF declarations = <<>> THEN <<>>
  ELSE (IF Given(Head(declarations), "name")
        THEN <<OllamaTool(Head(declarations))>> ELSE <<>>)
         \o FunctionTools(Tail(declarations))

\* convertToolsToOllamaFormat
convertToolsToOllamaFormat(geminiTools) ==
  Concat([i \in 1..Len(geminiTools) |->
            IF "functionDeclarations" \in DOMAIN geminiTools[i]
            THEN FunctionTools(geminiTools[i].functionDeclarations)
            ELSE <<>>])

\* a builder that pushes the system message after the turns
convertToChatFormatSystemLast(req) ==
  LET contents == ContentList(req.contents) IN
  [messages |->
     Concat([i \in 1..Len(contents) |-> TurnMessages(contents[i])])
       \o (IF SystemText(req.config) # <<>>
           THEN << [role |-> "system", content |-> SystemText(req.config)] >>
           ELSE <<>>),
   tools |->
     IF req.config.tools # <<>>
     THEN <<convertToolsToOllamaFormat(req.config.tools[1])>>
     ELSE <<>>]

\* convertToChatFormat: tools is <<>> when undefined
convertToChatFormat(req) ==
  LET contents == ContentList(req.contents) IN
  [messages |->
     (IF SystemText(req.config) # <<>>
      THEN << [role |-> "system", content |-> SystemText(req.config)] >>
      ELSE <<>>)
       \o Concat([i \in 1..Len(contents) |-> TurnMessages(contents[i])]),
   tools |->
     IF req.config.tools # <<>>
     THEN <<convertToolsToOllamaFormat(req.config.tools[1])>>
     ELSE <<>>]

(***************************************************************************)
(* The requests of generateContent and generateContentStream.              *)
(***************************************************************************)
Hello == <<"H", "e", "l", "l", "o">>

Requests ==
  [ contents : { ArrayContents(<<Turn("user", <<TextPart(Hello)>>)>>) },
    config : [ tools : {<<>>} \cup { <<l>> : l \in ToolLists },
               abortSignal : BOOLEAN ] ]

\* a routing test that wants a second tool
hasToolsOffByOne(req) ==
  req.config.tools # <<>> /\ Len(req.config.tools[1]) > 1

\* request.config?.tools && request.config.tools.length > 0
hasTools(req) ==
  req.config.tools # <<>> /\ Len(req.config.tools[1]) > 0

\* the signal option handed to fetch: request.config?.abortSignal
Signal(req) == IF req.config.abortSignal THEN "caller" ELSE "none"

GenerateRequest(req, stream) ==
  [method |-> "POST", path |-> "/api/generate", stream |-> stream,
   signal |-> Signal(req),
   prompt |-> convertToOllamaFormat(req).prompt,
   system |-> convertToOllamaFormat(req).systemInstruction]

ChatRequest(req, stream) ==
  [method |-> "POST", path |-> "/api/chat", stream |-> stream,
   signal |-> Signal(req),
   messages |-> convertToChatFormat(req).messages,
   tools |-> convertToChatFormat(req).tools]

\* The turns of a conversation with tools: texts of the user and of the
\* model, a text with a function response whose output is a string, and
\* function responses whose payload has no output, is absent, has an object
\* output, has an empty output, followed by a text, and a turn whose only
\* part is neither a text nor a function response.
Sunny == <<"s", "u", "n", "n", "y">>

ToolTurns ==
  { StringContent(Hello),
    Turn("model", <<TextPart(<<"Y", "o">>)>>),
    Turn("user", <<TextPart(<<"o", "k">>),
                   FunctionResponsePart("get_weather",
                     <<JSObject(<< <<"output", JSString(Sunny)>> >>)>>)>>),
    Turn("user", <<FunctionResponsePart("get_weather",
                     <<JSObject(<< <<"k", JSString(<<"v">>)>> >>)>>),
                   FunctionResponsePart("get_time", <<>>),
                   FunctionResponsePart("get_weather",
                     <<JSObject(<< <<"output",
                         JSObject(<< <<"sky", JSString(<<"\"", "a", "\"">>)>>,
                                     <<"t", JSString(<<"2">>)>> >>)>> >>)>>),
                   FunctionResponsePart("get_time",
                     <<JSObject(<< <<"output", JSString(<<>>)>> >>)>>),
                   TextPart(<<"o", "k">>)>>),
    Turn("user", <<[inlineData |-> "image/png"]>>) }

\* config.systemInstruction: a string, an empty string, a Content whose
\* parts hold a text, a Content whose parts hold none, an object with no
\* parts
SystemInstructions ==
  { StringContent(<<"B", "e">>),
    StringContent(<<>>),
    Turn("user", <<TextPart(<<"B", "e">>), TextPart(<<"!">>)>>),
    Turn("user", <<[inlineData |-> "image/png"]>>),
    [role |-> "user"] }

\* generateContent is also called with conversations of these turns and a
\* declared function, and with a system instruction before one turn
ConversationRequests ==
  [ contents : { ArrayContents(c) : c \in SeqsUpTo(ToolTurns, MaxTurns) },
    config : { [tools |-> << << [functionDeclarations |-> <<Weather>>] >> >>,
                abortSignal |-> FALSE] } ]
    \cup
  [ contents : { ArrayContents(<<t>>) : t \in ToolTurns },
    config : { [tools |-> << << [functionDeclarations |-> <<Weather>>] >> >>,
                abortSignal |-> FALSE,
                systemInstruction |-> i] : i \in SystemInstructions } ]

\* Function declarations with no description and no parameters, and with
\* no name.
Ping == [name |-> "ping"]
Nameless == [description |-> "no name", parameters |-> "schema"]

\* generateContent is also called with tools that declare such functions,
\* and with a tool that declares no function
DeclarationLists ==
  { << [functionDeclarations |-> <<Ping, Weather>>],
       [functionDeclarations |-> <<Clock>>] >>,
    << [functionDeclarations |-> <<Nameless, Weather>>] >>,
    << [functionDeclarations |-> <<Nameless>>] >>,
    << [googleSearch |-> "{}"], [functionDeclarations |-> <<Ping>>] >> }

ToolRequests ==
  [ contents : { ArrayContents(<<StringContent(Hello)>>) },
    config : { [tools |-> <<l>>, abortSignal |-> FALSE] :
                 l \in DeclarationLists } ]

\* generateContent is also called with no tools: with the conversations
\* and single items countTokens is called with, and with a system
\* instruction before one string
PromptRequests ==
  [ contents : { ArrayContents(c) : c \in Conversations }
                 \cup { SingleContent(t) : t \in Turns },
    config : { [tools |-> <<>>, abortSignal |-> FALSE] } ]
    \cup
  [ contents : { SingleContent(StringContent(Hello)) },
    config : { [tools |-> <<>>, abortSignal |-> FALSE,
                systemInstruction |-> i] : i \in SystemInstructions } ]

GenerateContentRequests ==
  Requests \cup ConversationRequests \cup ToolRequests \cup PromptRequests

(***************************************************************************)
(* fetch.  The outcomes of one HTTP call: it rejects (a transport error,   *)
(* or the abort of the signal it was given), or it resolves with a status. *)
(***************************************************************************)
Statuses == {"200", "500"}
Ok(status) == status = "200"

NotSettled == [settled |-> FALSE, rejected |-> FALSE, error |-> NoError, status |-> "0"]
Rejected(error) == [settled |-> TRUE, rejected |-> TRUE, error |-> error, status |-> "0"]
Resolved(status) == [settled |-> TRUE, rejected |-> FALSE, error |-> NoError, status |-> status]

Fetch(signal) ==
  IF signal = "caller" /\ aborted
  THEN {Rejected(AbortError)}
  ELSE {Rejected(NetworkError)} \cup {Resolved(s) : s \in Statuses}

(***************************************************************************)
(* What the backend may answer to a non-streaming call: the value          *)
(* httpResponse.json() resolves with.                                      *)
(***************************************************************************)
Field(key, opt) == IF opt = <<>> THEN <<>> ELSE << <<key, opt[1]>> >>

GenerateRecord(response, done, prompt_eval_count, eval_count) ==
  << <<"response", response>> >>
    \o Field("done", done)
    \o Field("prompt_eval_count", prompt_eval_count)
    \o Field("eval_count", eval_count)

GenerateBodies ==
  { GenerateRecord(t, d, p, e) :
      t \in {"Hello, world!", ""},
      d \in {<<>>, <<TRUE>>, <<FALSE>>},
      p \in {<<>>, <<0>>, <<10>>},
      e \in {<<>>, <<5>>} }

ToolCallChoices ==
  { ToolCall("f", ObjectArguments(<< <<"k", "v">> >>)),
    ToolCall("g", StringArguments(<<"{", "k", "}">>)),
    ToolCall("e", StringArguments(<<"{", "}">>)),
    ToolCall("h", StringArguments(<<"{", "k">>)) }

ChatRecord(content, tool_calls, done, prompt_eval_count, eval_count) ==
  << <<"message", Message(content, tool_calls)>> >>
    \o Field("done", done)
    \o Field("prompt_eval_count", prompt_eval_count)
    \o Field("eval_count", eval_count)

ChatBodies ==
  { ChatRecord(t, tc, d, p, e) :
      t \in {"Hi", ""},
      tc \in SeqsUpTo(ToolCallChoices, MaxToolCalls),
      d \in {<<>>, <<TRUE>>},
      p \in {<<>>, <<10>>},
      e \in {<<>>, <<5>>} }
    \cup { << <<"done", TRUE>> >> }

(***************************************************************************)
(* Response translators.                                                   *)
(***************************************************************************)
undefined == "undefined"

Candidate(parts, finishReason) ==
  [content |-> [role |-> "model", parts |-> parts],
   finishReason |-> finishReason,
   index |-> 0]

UsageMetadata(record) ==
  [promptTokenCount |-> Optional(record, "prompt_eval_count"),
   candidatesTokenCount |-> Optional(record, "eval_count"),
   totalTokenCount |-> OrZero(Optional(record, "prompt_eval_count"))
                         + OrZero(Optional(record, "eval_count"))]

ResponseText(record) ==
  IF Has(record, "response") THEN Get(record, "response") ELSE undefined

\* a completion response built by the streaming rule: no finish reason and
\* no usage until done
GenerateResponseAsChunk(ollamaResponse) ==
  [candidates |->
     <<Candidate(<<[text |-> ResponseText(ollamaResponse)]>>,
                 IF Truthy(ollamaResponse, "done") THEN "STOP" ELSE undefined)>>,
   usageMetadata |->
     IF Truthy(ollamaResponse, "done")
     THEN <<UsageMetadata(ollamaResponse)>> ELSE <<>>]

\* generateContentWithGenerate, from the parsed body on
GenerateResponse(ollamaResponse) ==
  [candidates |->
     <<Candidate(<<[text |-> ResponseText(ollamaResponse)]>>,
                 IF Truthy(ollamaResponse, "done") THEN "STOP" ELSE "MAX_TOKENS")>>,
   usageMetadata |-> <<UsageMetadata(ollamaResponse)>>]

\* a streamed response built by the rule of the non-streaming path
StreamResponseAsFinal(chunk) ==
  [candidates |->
     <<Candidate(<<[text |-> ResponseText(chunk)]>>,
                 IF Truthy(chunk, "done") THEN "STOP" ELSE "MAX_TOKENS")>>,
   usageMetadata |-> <<UsageMetadata(chunk)>>]

\* doGenerateContentStream, the body of the try around one parsed line
StreamResponse(chunk) ==
  [candidates |->
     <<Candidate(<<[text |-> ResponseText(chunk)]>>,
                 IF Truthy(chunk, "done") THEN "STOP" ELSE undefined)>>,
   usageMetadata |->
     IF Truthy(chunk, "done") THEN <<UsageMetadata(chunk)>> ELSE <<>>]

\* typeof arguments === 'string' ? JSON.parse(arguments) : arguments
ParsedArguments(arguments) ==
  IF arguments.typeof = "string"
  THEN JSONParse(arguments.chars)
  ELSE [ok |-> TRUE, value |-> arguments.value]

FunctionCallPart(toolCall) ==
  LET fn == Get(toolCall, "function") IN
  [functionCall |->
     [name |-> Get(fn, "name"),
      args |-> ParsedArguments(Get(fn, "arguments")).value]]

\* a translation that tests the content for presence, not for emptiness
convertChatResponseToGeminiAlwaysText(response) ==
  IF ~Has(response, "message") THEN Throws(TypeError)
  ELSE
    LET message == Get(response, "message")
        tool_calls ==
          IF Has(message, "tool_calls") THEN Get(message, "tool_calls") ELSE <<>>
        textParts ==
          IF Has(message, "content") THEN <<[text |-> Get(message, "content")]>>
          ELSE <<>>
        callParts == [i \in 1..Len(tool_calls) |-> FunctionCallPart(tool_calls[i])]
    IN
    IF \E i \in 1..Len(tool_calls) :
         ~ParsedArguments(Get(Get(tool_calls[i], "function"), "arguments")).ok
    THEN Throws(SyntaxError)
    ELSE Returns(
      [candidates |->
         <<Candidate(textParts \o callParts,
                     IF Truthy(response, "done") THEN "STOP" ELSE undefined)>>,
       usageMetadata |->
         IF Truthy(response, "done") THEN <<UsageMetadata(response)>> ELSE <<>>])

\* Returns(the response), or Throws(the error) when message is missing or
\* the arguments of a tool call do not parse.
convertChatResponseToGemini(response) ==
  IF ~Has(response, "message") THEN Throws(TypeError)
  ELSE
    LET message == Get(response, "message")
        content == IF Has(message, "content") THEN Get(message, "content") ELSE ""
        tool_calls ==
          IF Has(message, "tool_calls") THEN Get(message, "tool_calls") ELSE <<>>
        textParts == IF content # "" THEN <<[text |-> content]>> ELSE <<>>
        callParts == [i \in 1..Len(tool_calls) |-> FunctionCallPart(tool_calls[i])]
    IN
    IF \E i \in 1..Len(tool_calls) :
         ~ParsedArguments(Get(Get(tool_calls[i], "function"), "arguments")).ok
    THEN Throws(SyntaxError)
    ELSE Returns(
      [candidates |->
         <<Candidate(textParts \o callParts,
                     IF Truthy(response, "done") THEN "STOP" ELSE undefined)>>,
       usageMetadata |->
         IF Truthy(response, "done") THEN <<UsageMetadata(response)>> ELSE <<>>])

(***************************************************************************)
(* The model directory.  An answer to GET /api/tags: fetch rejects, or it  *)
(* resolves with a status and a body; the body may not be JSON, may lack   *)
(* `models`, and an entry of `models` may be null or lack a name.          *)
(***************************************************************************)
DEFAULT_OLLAMA_MODEL == "qwen3:1.7b"

RECOMMENDED_OLLAMA_MODELS ==
  <<"qwen3:1.7b", "gemma2:2b", "llama3.2:3b", "phi3:3.8b", "codellama:7b",
    "mistral:7b">>

\* The inventory holds at most MaxModels entries.
MaxModels == 2

NullEntry == [null |-> TRUE, name |-> undefined]
ModelEntry(name) == [null |-> FALSE, name |-> name]

ModelEntries ==
  {NullEntry} \cup
  { ModelEntry(n) :
      n \in {"qwen3:1.7b", "gemma2:2b", "mistral:7b", "custom:1b", "", undefined} }

TagsBody(decodes, hasModels, models) ==
  [decodes |-> decodes, hasModels |-> hasModels, models |-> models]

TagsBodies ==
  {TagsBody(FALSE, FALSE, <<>>), TagsBody(TRUE, FALSE, <<>>)}
    \cup { TagsBody(TRUE, TRUE, ms) : ms \in SeqsUpTo(ModelEntries, MaxModels) }

TagsAnswer(rejected, status, json) ==
  [rejected |-> rejected, status |-> status, json |-> json]

NoAnswer == TagsAnswer(TRUE, "0", TagsBody(FALSE, FALSE, <<>>))

TagsAnswers ==
  {NoAnswer, TagsAnswer(FALSE, "500", TagsBody(FALSE, FALSE, <<>>))}
    \cup { TagsAnswer(FALSE, "200", b) : b \in TagsBodies }

\* a listModels with no try around it: what is thrown leaves the method
listModelsUncaught(tags) ==
  IF tags.rejected THEN Throws(NetworkError)
  ELSE IF ~Ok(tags.status) THEN Throws(ApiError(tags.status))
  ELSE IF ~tags.json.decodes THEN Throws(SyntaxError)
  ELSE IF \/ ~tags.json.hasModels
          \/ \E i \in 1..Len(tags.json.models) : tags.json.models[i].null
    THEN Throws(TypeError)
  ELSE Returns([i \in 1..Len(tags.json.models) |-> tags.json.models[i].name])

\* listModels, from the settling of fetch on: every failure inside the try
\* is caught and gives [].
listModels(tags) ==
  IF \/ tags.rejected
     \/ ~Ok(tags.status)
     \/ ~tags.json.decodes
     \/ ~tags.json.hasModels
     \/ \E i \in 1..Len(tags.json.models) : tags.json.models[i].null
  THEN Returns(<<>>)
  ELSE Returns([i \in 1..Len(tags.json.models) |-> tags.json.models[i].name])

\* getAvailableModels, given what `await this.listModels()` gave
getAvailableModels(installedModels) ==
  IF ~installedModels.ok THEN installedModels
  ELSE IF Len(installedModels.value) > 0 THEN installedModels
  ELSE Returns(RECOMMENDED_OLLAMA_MODELS)

\* Array.prototype.includes
Includes(list, x) == \E i \in 1..Len(list) : list[i] = x

\* x || y on a model name
Falsy(name) == name = "" \/ name = undefined

\* a resolver that takes the first available model, whatever it is
getBestAvailableModelFirst(availableModels) ==
  IF ~availableModels.ok THEN availableModels
  ELSE IF availableModels.value = <<>> \/ Falsy(availableModels.value[1])
    THEN Returns(DEFAULT_OLLAMA_MODEL)
  ELSE Returns(availableModels.value[1])

\* a resolver with no last fallback: it ends on the first available model
getBestAvailableModelNoFallback(availableModels) ==
  IF ~availableModels.ok THEN availableModels
  ELSE
    LET available == availableModels.value
        hits == { i \in 1..Len(RECOMMENDED_OLLAMA_MODELS) :
                    Includes(available, RECOMMENDED_OLLAMA_MODELS[i]) }
    IN
    IF Includes(available, DEFAULT_OLLAMA_MODEL) THEN Returns(DEFAULT_OLLAMA_MODEL)
    ELSE IF hits # {}
      THEN Returns(RECOMMENDED_OLLAMA_MODELS[CHOOSE i \in hits : \A j \in hits : i <= j])
    ELSE IF available = <<>> THEN Returns(undefined)
    ELSE Returns(available[1])

\* a resolver that walks the available models, not the recommended list
getBestAvailableModelInventoryOrder(availableModels) ==
  IF ~availableModels.ok THEN availableModels
  ELSE
    LET available == availableModels.value
        hits == { i \in 1..Len(available) :
                    Includes(RECOMMENDED_OLLAMA_MODELS, available[i]) }
    IN
    IF Includes(available, DEFAULT_OLLAMA_MODEL) THEN Returns(DEFAULT_OLLAMA_MODEL)
    ELSE IF hits # {}
      THEN Returns(available[CHOOSE i \in hits : \A j \in hits : i <= j])
    ELSE IF available = <<>> \/ Falsy(available[1])
      THEN Returns(DEFAULT_OLLAMA_MODEL)
    ELSE Returns(available[1])

\* getBestAvailableModel, given what `await this.getAvailableModels()` gave
getBestAvailableModel(availableModels) ==
  IF ~availableModels.ok THEN availableModels
  ELSE
    LET available == availableModels.value
        hits == { i \in 1..Len(RECOMMENDED_OLLAMA_MODELS) :
                    Includes(available, RECOMMENDED_OLLAMA_MODELS[i]) }
    IN
    IF Includes(available, DEFAULT_OLLAMA_MODEL) THEN Returns(DEFAULT_OLLAMA_MODEL)
    ELSE IF hits # {}
      THEN Returns(RECOMMENDED_OLLAMA_MODELS[CHOOSE i \in hits : \A j \in hits : i <= j])
    ELSE IF available = <<>> \/ Falsy(available[1])
      THEN Returns(DEFAULT_OLLAMA_MODEL)
    ELSE Returns(available[1])

(***************************************************************************)
(* The state after construction: no call made yet.                         *)
(***************************************************************************)
NoRequest == [contents |-> <<>>, config |-> [tools |-> <<>>, abortSignal |-> FALSE]]

DefaultHost == "http://localhost:11434"


\* ContentGeneratorConfig: ollamaHost and model may be absent
Configs ==
  [ ollamaHost : {<<>>, <<"">>, <<"http://ollama:11434">>},
    model : {<<>>, <<"custom:1b">>} ]

\* config.ollamaHost || 'http://localhost:11434'
OllamaHost(config) ==
  IF config.ollamaHost = <<>> \/ config.ollamaHost[1] = ""
  THEN DefaultHost
  ELSE config.ollamaHost[1]

\* config.model || DEFAULT_OLLAMA_MODEL
ConfiguredModel(config) ==
  IF config.model = <<>> \/ config.model[1] = ""
  THEN DEFAULT_OLLAMA_MODEL
  ELSE config.model[1]

\* new OllamaContentGenerator(config)
OllamaContentGenerator(config) ==
  [ollamaHost |-> OllamaHost(config), model |-> ConfiguredModel(config)]

\* the locals of a generator call that has not been made
NoCall ==
  [generator |-> "none", pc |-> "idle", sent |-> <<>>, body |-> <<>>,
   wire |-> <<>>, buffer |-> <<>>, lines |-> <<>>, yielded |-> <<>>,
   demand |-> FALSE, result |-> NoResult]

\* the two calls of ConcurrentSpec
Callers == {1, 2}

\* no call has been made on the adapter
NoCallYet ==
  /\ op = "none"
  /\ request = NoRequest
  /\ pc = "idle"
  /\ http = <<>>
  /\ reported = <<>>
  /\ result = NoResult
  /\ generator = "none"
  /\ body = <<>>
  /\ wire = <<>>
  /\ buffer = <<>>
  /\ lines = <<>>
  /\ yielded = <<>>
  /\ demand = FALSE
  /\ aborted = FALSE
  /\ fetched = NotSettled
  /\ answer = <<>>
  /\ streams = [i \in Callers |-> NoCall]

\* the adapter was constructed with an empty configuration
Init ==
  /\ NoCallYet
  /\ adapter = OllamaContentGenerator([ollamaHost |-> <<>>, model |-> <<>>])

\* the signal handed to the HTTP call that is in flight
SentSignal == http[Len(http)].signal

\* a catch block that rethrows at once and tells the error sink nothing
ReportErrorSkipped(error, context, tag) ==
  /\ result' = Thrown(<<context>>)
  /\ pc' = "done"
  /\ UNCHANGED <<op, request, http, reported, generator, body, wire, buffer,
                 lines, yielded, demand, aborted>>

\* await reportError(error, context, contents, tag), first half of a catch block
ReportError(error, context, tag) ==
  /\ reported' = Append(reported, [error |-> error, context |-> context, tag |-> tag])
  /\ pc' = "reported"
  /\ UNCHANGED <<op, request, http, result, generator, body, wire, buffer,
                 lines, yielded, demand, aborted>>

\* the error the catch block holds while reportError is awaited
Caught == reported[Len(reported)].error

Return(value) ==
  /\ result' = Returned(value)
  /\ pc' = "done"
  /\ UNCHANGED <<op, request, http, reported, generator, body, wire, buffer,
                 lines, yielded, demand, aborted>>

\* the body of a 2xx answer that is not JSON: httpResponse.json() rejects
NotJSON == << <<"not JSON", TRUE>> >>

(***************************************************************************)
(* generateContent                                                         *)
(***************************************************************************)
generateContentWithGenerate(req) ==
  http' = Append(http, GenerateRequest(req, FALSE))

generateContentWithChat(req) ==
  http' = Append(http, ChatRequest(req, FALSE))

\* the call, up to the await of fetch
generateContent(req) ==
  /\ pc = "idle"
  /\ op' = "generateContent"
  /\ request' = req
  /\ IF hasTools(req)
     THEN generateContentWithChat(req)
     ELSE generateContentWithGenerate(req)
  /\ pc' = "fetch"
  /\ UNCHANGED <<reported, result, generator, body, wire, buffer, lines,
                 yielded, demand, aborted, fetched, answer>>

generateContentCatch(error) ==
  ReportError(error, "Error generating content with Ollama", "ollama-generate")

\* generateContentWithGenerate, from the settling of fetch on
generateContentWithGenerateSettle ==
  /\ op = "generateContent" /\ pc = "fetch"
  /\ http[Len(http)].path = "/api/generate"
  /\ \E r \in Fetch(SentSignal) :
       /\ fetched' = r
       /\ IF r.rejected
          THEN generateContentCatch(r.error) /\ UNCHANGED answer
          ELSE IF ~Ok(r.status)
          THEN generateContentCatch(ApiError(r.status)) /\ UNCHANGED answer
          ELSE \/ generateContentCatch(SyntaxError) /\ answer' = NotJSON
               \/ \E json \in GenerateBodies :
                    /\ answer' = json
                    /\ Return(GenerateResponse(json))

\* The answers tried for a request with a conversation, a system
\* instruction or a declaration list of its own (every answer is tried for
\* the one-turn requests of Requests): a text and a tool call.
PlainChatBodies ==
  { ChatRecord("Hi", <<>>, <<TRUE>>, <<10>>, <<5>>),
    ChatRecord("", <<ToolCall("f", ObjectArguments(<< <<"k", "v">> >>))>>,
               <<TRUE>>, <<>>, <<>>) }

\* generateContentWithChat, from the settling of fetch on
generateContentWithChatSettle ==
  /\ op = "generateContent" /\ pc = "fetch"
  /\ http[Len(http)].path = "/api/chat"
  /\ \E r \in Fetch(SentSignal) :
       /\ fetched' = r
       /\ IF r.rejected
          THEN generateContentCatch(r.error) /\ UNCHANGED answer
          ELSE IF ~Ok(r.status)
          THEN generateContentCatch(ApiError(r.status)) /\ UNCHANGED answer
          ELSE \/ generateContentCatch(SyntaxError) /\ answer' = NotJSON
               \/ \E json \in ChatBodies :
                    /\ request \in Requests \/ json \in PlainChatBodies
                    /\ answer' = json
                    /\ LET converted == convertChatResponseToGemini(json) IN
                       IF converted.ok
                       THEN Return(converted.value)
                       ELSE generateContentCatch(converted.error)

\* the throw that ends the catch block
generateContentThrow ==
  /\ op = "generateContent" /\ pc = "reported"
  /\ result' = Thrown(<<"Failed to generate content with Ollama: ">>
                        \o getErrorMessage(Caught))
  /\ pc' = "done"
  /\ UNCHANGED <<op, request, http, reported, generator, body, wire, buffer,
                 lines, yielded, demand, aborted, fetched, answer>>

(***************************************************************************)
(* The caller aborts its signal.  It can do so whenever the call is        *)
(* suspended: at an await of the network, or at a yield.                   *)
(***************************************************************************)
Abort ==
  /\ op \in {"generateContent", "generateContentStream"}
  /\ request.config.abortSignal
  /\ ~aborted
  /\ \/ pc \in {"fetch", "read", "created"}
     \/ pc = "lines" /\ ~demand
  /\ aborted' = TRUE
  /\ UNCHANGED <<op, request, pc, http, reported, result, generator, body,
                 wire, buffer, lines, yielded, demand, fetched, answer>>

(***************************************************************************)
(* generateContentStream: the streamed body and the line decoder           *)
(***************************************************************************)
Line(chars) == <<"{">> \o chars \o <<"}", "\n">>

\* What /api/generate may stream: records without done and with done false,
\* a final record, a line that is not JSON, a blank line, and a record with
\* no newline after it.
GenerateSegments ==
  { Line(<<"r">>), Line(<<"r", "f">>), Line(<<"r", "d", "p">>),
    <<"{", "r", "\n">>, <<" ", "\n">>, <<"{", "r", "}">> }

\* What /api/chat may stream: a text message, tool calls with structured,
\* parseable and unparseable arguments, a line that is not JSON, and a
\* record with no newline after it.
ChatSegments ==
  { Line(<<"m">>), Line(<<"c", "d">>), Line(<<"s">>), Line(<<"z">>),
    <<"{", "m", "\n">>, <<"{", "m", "}">> }

StreamBodies(segments) == { Concat(ss) : ss \in SeqsUpTo(segments, MaxLines) }

\* the bodies a streaming answer of /api/generate, of /api/chat may have
GenerateStreamBodies == StreamBodies(GenerateSegments)
ChatStreamBodies == StreamBodies(ChatSegments)

\* String.prototype.split('\n')
RECURSIVE Split(_)
Split(s) ==
  IF \E i \in 1..Len(s) : s[i] = "\n"
  THEN LET i == CHOOSE i \in 1..Len(s) :
                  s[i] = "\n" /\ \A j \in 1..(i - 1) : s[j] # "\n"
       IN <<SubSeq(s, 1, i - 1)>> \o Split(SubSeq(s, i + 1, Len(s)))
  ELSE <<s>>

\* a decoder that keeps nothing between reads
PoppedBufferDropped(segments) == <<>>

\* buffer = lines.pop() || ''
PoppedBuffer(segments) == segments[Len(segments)]

\* lines, after the pop
\* the lines when nothing is popped: the last segment is a line as well
CompleteLinesUnpopped(segments) == segments

CompleteLines(segments) == SubSeq(segments, 1, Len(segments) - 1)

\* the catch block of a generator: its locals are gone
StreamReportError(error, context, tag) ==
  /\ reported' = Append(reported, [error |-> error, context |-> context, tag |-> tag])
  /\ pc' = "reported"
  /\ wire' = <<>> /\ buffer' = <<>> /\ lines' = <<>>
  /\ UNCHANGED <<op, request, http, result, generator, body, yielded, demand,
                 aborted, answer>>

doGenerateContentStreamCatch(error) ==
  StreamReportError(error, "Error streaming content with Ollama", "ollama-stream")

doGenerateContentStreamChatCatch(error) ==
  StreamReportError(error, "Error streaming chat content with Ollama",
                    "ollama-chat-stream")

StreamCatch(gen, error) ==
  IF gen = "doGenerateContentStream"
  THEN doGenerateContentStreamCatch(error)
  ELSE doGenerateContentStreamChatCatch(error)

\* what the try around one parsed line of /api/generate builds
doGenerateContentStreamConvert(chunk) == Returns(StreamResponse(chunk))

\* the response one line gives: Returns(it), or Throws for a line that is
\* skipped (JSON.parse or the conversion threw inside the try)
LineResponse(gen, line) ==
  LET parsed == JSONParse(line) IN
  IF ~parsed.ok THEN Throws(SyntaxError)
  ELSE IF gen = "doGenerateContentStream"
    THEN doGenerateContentStreamConvert(parsed.value)
    ELSE convertChatResponseToGemini(parsed.value)

\* the generator runs up to its await of fetch
StreamStart(gen, httpRequest) ==
  /\ generator = gen /\ pc = "created" /\ demand
  /\ http' = Append(http, httpRequest)
  /\ pc' = "fetch"
  /\ UNCHANGED <<op, request, reported, result, generator, body, wire, buffer,
                 lines, yielded, demand, aborted, fetched, answer>>

\* fetch settles; on success the reader is taken and the loop entered
StreamFetched(gen, bodies) ==
  /\ generator = gen /\ pc = "fetch"
  /\ \E r \in Fetch(SentSignal) :
       /\ fetched' = r
       /\ IF r.rejected THEN StreamCatch(gen, r.error)
          ELSE IF ~Ok(r.status) THEN StreamCatch(gen, ApiError(r.status))
          ELSE \/ StreamCatch(gen, NoBodyError)
               \/ \E b \in bodies :
                    /\ body' = b /\ wire' = b
                    /\ buffer' = <<>>
                    /\ pc' = "read"
                    /\ UNCHANGED <<op, request, http, reported, result,
                                   generator, lines, yielded, demand, aborted,
                                   answer>>

\* a read that, at the end of the body, hands what is left in the buffer to
\* the for loop as one more line
StreamReadFlushing(gen) ==
  /\ generator = gen /\ pc = "read"
  /\ UNCHANGED fetched
  /\ IF SentSignal = "caller" /\ aborted THEN StreamCatch(gen, AbortError)
     ELSE \/ StreamCatch(gen, ConnectionLost)
          \/ /\ wire = <<>> /\ buffer = <<>>
             /\ result' = Returned("end of stream")
             /\ pc' = "done"
             /\ demand' = FALSE
             /\ UNCHANGED <<op, request, http, reported, generator, body, wire,
                            buffer, lines, yielded, aborted, answer>>
          \/ /\ wire = <<>> /\ buffer # <<>>
             /\ lines' = <<buffer>>
             /\ buffer' = <<>>
             /\ pc' = "lines"
             /\ UNCHANGED <<op, request, http, reported, result, generator,
                            body, wire, yielded, demand, aborted, answer>>
          \/ \E n \in 1..Len(wire) :
               LET segments == Split(buffer \o SubSeq(wire, 1, n)) IN
               /\ wire' = SubSeq(wire, n + 1, Len(wire))
               /\ buffer' = PoppedBuffer(segments)
               /\ lines' = CompleteLines(segments)
               /\ pc' = IF CompleteLines(segments) = <<>> THEN "read" ELSE "lines"
               /\ UNCHANGED <<op, request, http, reported, result, generator,
                              body, yielded, demand, aborted, answer>>

\* await reader.read(), then the split of the buffer
StreamRead(gen) ==
  /\ generator = gen /\ pc = "read"
  /\ UNCHANGED fetched
  /\ IF SentSignal = "caller" /\ aborted THEN StreamCatch(gen, AbortError)
     ELSE \/ StreamCatch(gen, ConnectionLost)
          \/ /\ wire = <<>>
             /\ result' = Returned("end of stream")
             /\ pc' = "done"
             /\ demand' = FALSE
             /\ UNCHANGED <<op, request, http, reported, generator, body, wire,
                            buffer, lines, yielded, aborted, answer>>
          \/ \E n \in 1..Len(wire) :
               LET segments == Split(buffer \o SubSeq(wire, 1, n)) IN
               /\ wire' = SubSeq(wire, n + 1, Len(wire))
               /\ buffer' = PoppedBuffer(segments)
               /\ lines' = CompleteLines(segments)
               /\ pc' = IF CompleteLines(segments) = <<>> THEN "read" ELSE "lines"
               /\ UNCHANGED <<op, request, http, reported, result, generator,
                              body, yielded, demand, aborted, answer>>

\* the lines a streamed body can be cut into
StreamLines ==
  UNION { { Split(b)[i] : i \in 1..Len(Split(b)) } :
            b \in GenerateStreamBodies \cup ChatStreamBodies }

\* the outcome of the try block of each generator for each line, worked out
\* once for all the states
LineResponses ==
  [gen \in {"doGenerateContentStream", "doGenerateContentStreamChat"},
   line \in StreamLines |-> LineResponse(gen, line)]

\* the try block of the for loop for one line
TryLine(gen, line) ==
  IF line \in StreamLines THEN LineResponses[gen, line]
  ELSE LineResponse(gen, line)

\* a for loop with no try around the line: what is thrown reaches the
\* generator's catch block
StreamLineUncaught(gen) ==
  /\ generator = gen /\ pc = "lines" /\ demand /\ lines # <<>>
  /\ UNCHANGED fetched
  /\ LET line == Head(lines) IN
     IF Trim(line) = <<>>
     THEN /\ lines' = Tail(lines)
          /\ pc' = IF Tail(lines) = <<>> THEN "read" ELSE "lines"
          /\ UNCHANGED <<op, request, http, reported, result, generator, body,
                         wire, buffer, yielded, demand, aborted, answer>>
     ELSE IF LineResponse(gen, line).ok
     THEN /\ yielded' = Append(yielded, LineResponse(gen, line).value)
          /\ demand' = FALSE
          /\ lines' = Tail(lines)
          /\ UNCHANGED <<op, request, pc, http, reported, result, generator,
                         body, wire, buffer, aborted, answer>>
     ELSE StreamCatch(gen, LineResponse(gen, line).error)

\* a for loop that does not wait for the consumer: it goes on to the next
\* line whether or not next() was called
StreamLineEager(gen) ==
  /\ generator = gen /\ pc = "lines" /\ lines # <<>>
  /\ LET line == Head(lines) IN
     IF Trim(line) # <<>> /\ LineResponse(gen, line).ok
     THEN /\ yielded' = Append(yielded, LineResponse(gen, line).value)
          /\ demand' = FALSE
     ELSE UNCHANGED <<yielded, demand>>
  /\ pc' = IF Tail(lines) = <<>> THEN "read" ELSE "lines"
  /\ lines' = Tail(lines)
  /\ UNCHANGED <<op, request, http, reported, result, generator, body, wire,
                 buffer, aborted, fetched, answer>>

\* one turn of the for loop: the line is skipped (blank, not JSON, or its
\* conversion threw inside the try) or its response is yielded
StreamLine(gen) ==
  /\ generator = gen /\ pc = "lines" /\ demand /\ lines # <<>>
  /\ LET line == Head(lines) IN
     IF Trim(line) # <<>> /\ TryLine(gen, line).ok
     THEN /\ yielded' = Append(yielded, TryLine(gen, line).value)
          /\ demand' = FALSE
          /\ pc' = "lines"
     ELSE /\ UNCHANGED <<yielded, demand>>
          /\ pc' = IF Tail(lines) = <<>> THEN "read" ELSE "lines"
  /\ lines' = Tail(lines)
  /\ UNCHANGED <<op, request, http, reported, result, generator, body, wire,
                 buffer, aborted, fetched, answer>>

\* a for loop that, once over, does not go back to the read
StreamLoopEndStuck(gen) ==
  /\ generator = gen /\ pc = "lines" /\ demand /\ lines = <<>>
  /\ UNCHANGED <<op, request, pc, http, reported, result, generator, body,
                 wire, buffer, lines, yielded, demand, aborted, fetched, answer>>

\* the for loop is over: back to the read
StreamLoopEnd(gen) ==
  /\ generator = gen /\ pc = "lines" /\ demand /\ lines = <<>>
  /\ pc' = "read"
  /\ UNCHANGED <<op, request, http, reported, result, generator, body, wire,
                 buffer, lines, yielded, demand, aborted, fetched, answer>>

\* the throw that ends a generator's catch block
StreamThrow(gen, prefix) ==
  /\ generator = gen /\ pc = "reported"
  /\ result' = Thrown(<<prefix>> \o getErrorMessage(Caught))
  /\ pc' = "done"
  /\ demand' = FALSE
  /\ UNCHANGED <<op, request, http, reported, generator, body, wire, buffer,
                 lines, yielded, aborted, fetched, answer>>

\* the call: it picks the generator and returns it; nothing has run yet
generateContentStream(req) ==
  /\ pc = "idle"
  /\ op' = "generateContentStream"
  /\ request' = req
  /\ generator' = IF hasTools(req)
                  THEN "doGenerateContentStreamChat"
                  ELSE "doGenerateContentStream"
  /\ pc' = "created"
  /\ UNCHANGED <<http, reported, result, body, wire, buffer, lines, yielded,
                 demand, aborted, fetched, answer>>

\* the consumer calls next() on the generator
Pull ==
  /\ op = "generateContentStream"
  /\ pc \in {"created", "lines"}
  /\ ~demand
  /\ demand' = TRUE
  /\ UNCHANGED <<op, request, pc, http, reported, result, generator, body, wire,
                 buffer, lines, yielded, aborted, fetched, answer>>

doGenerateContentStreamStart ==
  StreamStart("doGenerateContentStream", GenerateRequest(request, TRUE))

doGenerateContentStreamFetched ==
  StreamFetched("doGenerateContentStream", GenerateStreamBodies)

doGenerateContentStreamRead == StreamRead("doGenerateContentStream")

doGenerateContentStreamLine == StreamLine("doGenerateContentStream")

doGenerateContentStreamLoopEnd == StreamLoopEnd("doGenerateContentStream")

doGenerateContentStreamThrow ==
  StreamThrow("doGenerateContentStream", "Failed to stream content with Ollama: ")

doGenerateContentStreamChatStart ==
  StreamStart("doGenerateContentStreamChat", ChatRequest(request, TRUE))

doGenerateContentStreamChatFetched ==
  StreamFetched("doGenerateContentStreamChat", ChatStreamBodies)

doGenerateContentStreamChatRead == StreamRead("doGenerateContentStreamChat")

doGenerateContentStreamChatLine == StreamLine("doGenerateContentStreamChat")

doGenerateContentStreamChatLoopEnd == StreamLoopEnd("doGenerateContentStreamChat")

doGenerateContentStreamChatThrow ==
  StreamThrow("doGenerateContentStreamChat",
              "Failed to stream chat content with Ollama: ")

(***************************************************************************)
(* embedContent                                                            *)
(***************************************************************************)
EmbedRequests ==
  [ contents : { [isArray |-> FALSE, items |-> <<"Hello world">>],
                 [isArray |-> TRUE, items |-> <<"Hello world">>],
                 [isArray |-> TRUE, items |-> <<"a", "b">>] },
    config : {[tools |-> <<>>, abortSignal |-> FALSE]} ]

Vector1 == <<1, 2, 3>>
Vector2 == <<4, 5, 6>>

\* the bodies /api/embeddings may answer: {embedding}, {embeddings}, {}
EmbedBodies ==
  { << <<"embedding", Vector1>> >>,
    << <<"embeddings", <<Vector1>> >> >>,
    << <<"embeddings", <<Vector1, Vector2>> >> >>,
    <<>> }

\* texts.length === 1 ? texts[0] : texts
EmbedPrompt(texts) ==
  IF Len(texts) = 1
  THEN [isArray |-> FALSE, items |-> texts]
  ELSE [isArray |-> TRUE, items |-> texts]

\* ollamaResponse.embeddings || (ollamaResponse.embedding ? [embedding] : [])
EmbedResponse(ollamaResponse) ==
  LET embeddings ==
        IF Has(ollamaResponse, "embeddings") THEN Get(ollamaResponse, "embeddings")
        ELSE IF Has(ollamaResponse, "embedding")
          THEN <<Get(ollamaResponse, "embedding")>>
        ELSE <<>>
  IN [embeddings |-> [i \in 1..Len(embeddings) |-> [values |-> embeddings[i]]]]

\* the call, up to the await of fetch
embedContent(req) ==
  /\ pc = "idle"
  /\ op' = "embedContent"
  /\ request' = req
  /\ http' = Append(http, [method |-> "POST", path |-> "/api/embeddings",
                           stream |-> FALSE, signal |-> "none",
                           prompt |-> EmbedPrompt(req.contents.items)])
  /\ pc' = "fetch"
  /\ UNCHANGED <<reported, result, generator, body, wire, buffer, lines,
                 yielded, demand, aborted, fetched, answer>>

embedContentCatch(error) ==
  ReportError(error, "Error generating embeddings with Ollama", "ollama-embed")

\* from the settling of fetch on
embedContentSettle ==
  /\ op = "embedContent" /\ pc = "fetch"
  /\ \E r \in Fetch(SentSignal) :
       /\ fetched' = r
       /\ IF r.rejected
          THEN embedContentCatch(r.error) /\ UNCHANGED answer
          ELSE IF ~Ok(r.status)
          THEN embedContentCatch(ApiError(r.status)) /\ UNCHANGED answer
          ELSE \/ embedContentCatch(SyntaxError) /\ answer' = NotJSON
               \/ \E json \in EmbedBodies :
                    /\ answer' = json
                    /\ Return(EmbedResponse(json))

embedContentThrow ==
  /\ op = "embedContent" /\ pc = "reported"
  /\ result' = Thrown(<<"Failed to generate embeddings with Ollama: ">>
                        \o getErrorMessage(Caught))
  /\ pc' = "done"
  /\ UNCHANGED <<op, request, http, reported, generator, body, wire, buffer,
                 lines, yielded, demand, aborted, fetched, answer>>

(***************************************************************************)
(* The model directory's calls.  Each sends GET /api/tags (through         *)
(* listModels) and ends when the answer has been worked through.           *)
(***************************************************************************)
TagsRequest ==
  [method |-> "GET", path |-> "/api/tags", stream |-> FALSE, signal |-> "none"]

DirectoryCall(name) ==
  /\ pc = "idle"
  /\ op' = name
  /\ http' = Append(http, TagsRequest)
  /\ pc' = "fetch"
  /\ UNCHANGED <<request, reported, result, generator, body, wire, buffer,
                 lines, yielded, demand, aborted, fetched, answer>>

\* the call ends: with the value, or with the error that propagated
DirectoryEnd(name, tags, outcome) ==
  /\ op = name /\ pc = "fetch"
  /\ answer' = tags
  /\ result' = IF outcome.ok
               THEN Returned(outcome.value)
               ELSE Thrown(getErrorMessage(outcome.error))
  /\ pc' = "done"
  /\ UNCHANGED <<op, request, http, reported, generator, body, wire, buffer,
                 lines, yielded, demand, aborted, fetched>>

listModelsCall == DirectoryCall("listModels")

listModelsSettle ==
  \E tags \in TagsAnswers :
    DirectoryEnd("listModels", tags, listModels(tags))

getAvailableModelsCall == DirectoryCall("getAvailableModels")

getAvailableModelsSettle ==
  \E tags \in TagsAnswers :
    DirectoryEnd("getAvailableModels", tags,
                 getAvailableModels(listModels(tags)))

getBestAvailableModelCall == DirectoryCall("getBestAvailableModel")

getBestAvailableModelSettle ==
  \E tags \in TagsAnswers :
    DirectoryEnd("getBestAvailableModel", tags,
                 getBestAvailableModel(getAvailableModels(listModels(tags))))

(***************************************************************************)
(* isAvailable and createOllamaContentGenerator.  The probe is a GET of    *)
(* /api/tags under AbortSignal.timeout: fetch rejects (a transport error,  *)
(* or the timeout fired first) or resolves with a status.                  *)
(***************************************************************************)
\* AbortSignal.timeout(2000)
ProbeTimeout == 2000

TimeoutError ==
  [name |-> "TimeoutError",
   message |-> <<"The operation was aborted due to timeout">>]

ProbeOutcomes ==
  {Rejected(NetworkError), Rejected(TimeoutError)}
    \cup {Resolved(s) : s \in Statuses}

ProbeRequest(config) ==
  [method |-> "GET", path |-> "/api/tags", stream |-> FALSE,
   signal |-> "timeout", timeout |-> ProbeTimeout,
   host |-> OllamaHost(config)]

\* a probe that is content with any answer
isAvailableAnyAnswer(outcome) == ~outcome.rejected

\* isAvailable, from the settling of fetch on: response.ok, or false
isAvailable(outcome) ==
  IF outcome.rejected THEN FALSE ELSE Ok(outcome.status)

\* a call that starts with the probe
ProbeCall(name, config) ==
  /\ pc = "idle"
  /\ op' = name
  /\ request' = config
  /\ http' = Append(http, ProbeRequest(config))
  /\ pc' = "fetch"
  /\ UNCHANGED <<reported, result, generator, body, wire, buffer, lines,
                 yielded, demand, aborted, fetched, answer>>

isAvailableCall == \E config \in Configs : ProbeCall("isAvailable", config)

isAvailableSettle ==
  /\ op = "isAvailable" /\ pc = "fetch"
  /\ \E outcome \in ProbeOutcomes :
       /\ fetched' = outcome
       /\ result' = Returned(isAvailable(outcome))
  /\ pc' = "done"
  /\ UNCHANGED <<op, request, http, reported, generator, body, wire, buffer,
                 lines, yielded, demand, aborted, answer>>

\* the factory, up to the await of the probe
createOllamaContentGenerator ==
  \E config \in Configs : ProbeCall("createOllamaContentGenerator", config)

\* the factory, from the settling of the probe on
createOllamaContentGeneratorSettle ==
  /\ op = "createOllamaContentGenerator" /\ pc = "fetch"
  /\ \E outcome \in ProbeOutcomes :
       /\ fetched' = outcome
       /\ result' =
            IF isAvailable(outcome)
            THEN Returned(OllamaContentGenerator(request))
            ELSE Thrown(<<"Ollama is not available at ", OllamaHost(request),
                          ". ",
                          "Please ensure Ollama is running and accessible.">>)
  /\ pc' = "done"
  /\ UNCHANGED <<op, request, http, reported, generator, body, wire, buffer,
                 lines, yielded, demand, aborted, answer>>

(***************************************************************************)
(* countTokens                                                             *)
(***************************************************************************)
CountRequests ==
  [ contents : { ArrayContents(c) : c \in Conversations }
                 \cup { SingleContent(t) : t \in Turns },
    config : { [tools |-> <<>>, abortSignal |-> FALSE],
               [tools |-> << << [functionDeclarations |-> <<Weather>>] >> >>,
                abortSignal |-> FALSE] } ]

\* an estimate that rounds down
estimatedTokensFloor(prompt) == Len(prompt) \div 4

\* Math.ceil(prompt.length / 4)
estimatedTokens(prompt) == (Len(prompt) + 3) \div 4

\* the whole call: it awaits nothing
countTokens(req) ==
  /\ pc = "idle"
  /\ op' = "countTokens"
  /\ request' = req
  /\ result' = Returned(
       [totalTokens |-> estimatedTokens(convertToOllamaFormat(req).prompt)])
  /\ pc' = "done"
  /\ UNCHANGED <<http, reported, generator, body, wire, buffer, lines,
                 yielded, demand, aborted, fetched, answer>>

(***************************************************************************)
(* The specification.                                                      *)
(***************************************************************************)
\* a step of the one call leaves the adapter and the two streams alone
Alone == UNCHANGED <<adapter, streams>>

Next ==
  \/ (\E req \in GenerateContentRequests : generateContent(req)) /\ Alone
  \/ generateContentWithGenerateSettle /\ Alone
  \/ generateContentWithChatSettle /\ Alone
  \/ generateContentThrow /\ Alone
  \/ (\E req \in Requests : generateContentStream(req)) /\ Alone
  \/ Pull /\ Alone
  \/ doGenerateContentStreamStart /\ Alone
  \/ doGenerateContentStreamFetched /\ Alone
  \/ doGenerateContentStreamRead /\ Alone
  \/ doGenerateContentStreamLine /\ Alone
  \/ doGenerateContentStreamLoopEnd /\ Alone
  \/ doGenerateContentStreamThrow /\ Alone
  \/ doGenerateContentStreamChatStart /\ Alone
  \/ doGenerateContentStreamChatFetched /\ Alone
  \/ doGenerateContentStreamChatRead /\ Alone
  \/ doGenerateContentStreamChatLine /\ Alone
  \/ doGenerateContentStreamChatLoopEnd /\ Alone
  \/ doGenerateContentStreamChatThrow /\ Alone
  \/ Abort /\ Alone
  \/ (\E req \in EmbedRequests : embedContent(req)) /\ Alone
  \/ embedContentSettle /\ Alone
  \/ embedContentThrow /\ Alone
  \/ listModelsCall /\ Alone
  \/ listModelsSettle /\ Alone
  \/ getAvailableModelsCall /\ Alone
  \/ getAvailableModelsSettle /\ Alone
  \/ getBestAvailableModelCall /\ Alone
  \/ getBestAvailableModelSettle /\ Alone
  \/ (\E req \in CountRequests : countTokens(req)) /\ Alone
  \/ isAvailableCall /\ Alone
  \/ isAvailableSettle /\ Alone
  \/ createOllamaContentGenerator /\ Alone
  \/ createOllamaContentGeneratorSettle /\ Alone

Spec == Init /\ [][Next]_vars

\* one step of a stream's generator: a continuation the event loop runs, or
\* the settling of the fetch or of the read it awaits
StreamStep ==
  \/ doGenerateContentStreamStart
  \/ doGenerateContentStreamFetched
  \/ doGenerateContentStreamRead
  \/ doGenerateContentStreamLine
  \/ doGenerateContentStreamLoopEnd
  \/ doGenerateContentStreamThrow
  \/ doGenerateContentStreamChatStart
  \/ doGenerateContentStreamChatFetched
  \/ doGenerateContentStreamChatRead
  \/ doGenerateContentStreamChatLine
  \/ doGenerateContentStreamChatLoopEnd
  \/ doGenerateContentStreamChatThrow

\* what happens in a behaviour that is one stream
StreamNext ==
  \/ (\E req \in Requests : generateContentStream(req)) /\ Alone
  \/ Pull /\ Alone
  \/ StreamStep /\ Alone
  \/ Abort /\ Alone

\* The behaviours of one stream in which the consumer keeps pulling, every
\* awaited fetch and read settles, and the event loop runs every
\* continuation that is ready.
LiveSpec ==
  /\ Init /\ [][StreamNext]_vars
  /\ WF_vars(Pull /\ Alone) /\ WF_vars(StreamStep /\ Alone)

(***************************************************************************)
(* Two streams at once.  The adapter is one object; each call of a         *)
(* generator function has its own locals (request, reader, buffer, lines). *)
(* JavaScript runs one continuation at a time, so the steps of the two     *)
(* calls interleave at their awaits and yields: a step is what one call    *)
(* does between two of them.  Both backends answer 2xx.                    *)
(***************************************************************************)
\* the variables of the one call of Spec
oneCall == <<op, request, pc, http, reported, result, generator, body, wire,
             buffer, lines, yielded, demand, aborted, fetched, answer>>

\* the requests of the two streams: one without tools, one with a tool
ConcurrentRequests ==
  { req \in Requests :
      /\ ~req.config.abortSignal
      /\ req.config.tools
           \in {<<>>, << <<[functionDeclarations |-> <<Weather>>]>> >>} }

\* what the backends stream to them
ConcurrentGenerateBodies ==
  { Line(<<"r", "f">>) \o Line(<<"r", "d", "p">>),
    Line(<<"r">>) \o <<"{", "r", "}">> }

ConcurrentChatBodies == { Line(<<"m">>) \o Line(<<"c", "d">>) }

\* a buffer that is one for the adapter and not one for each call
BufferOfFirst(i) == streams[1].buffer

\* `let buffer = ''`: the buffer is a local of the call
BufferOf(i) == streams[i].buffer

\* generateContentStream(req), called while the other call may be running
CallStream(i, req) ==
  /\ streams[i].pc = "idle"
  /\ streams' = [streams EXCEPT
                   ![i].generator = IF hasTools(req)
                                    THEN "doGenerateContentStreamChat"
                                    ELSE "doGenerateContentStream",
                   ![i].pc = "created"]
  /\ UNCHANGED <<adapter, oneCall>>

\* the consumer of call i calls next()
CallPull(i) ==
  /\ streams[i].pc \in {"created", "lines"}
  /\ ~streams[i].demand
  /\ streams' = [streams EXCEPT ![i].demand = TRUE]
  /\ UNCHANGED <<adapter, oneCall>>

\* the generator starts: fetch(`${this.ollamaHost}/api/...`) with
\* model: this.model (these requests name no model of their own)
CallStart(i) ==
  /\ streams[i].pc = "created" /\ streams[i].demand
  /\ streams' = [streams EXCEPT
                   ![i].sent =
                      <<[host |-> adapter.ollamaHost,
                         path |-> IF streams[i].generator = "doGenerateContentStream"
                                  THEN "/api/generate" ELSE "/api/chat",
                         model |-> adapter.model]>>,
                   ![i].pc = "fetch"]
  /\ UNCHANGED <<adapter, oneCall>>

\* the backend answers 2xx with body b: the reader is taken, buffer = ''
CallAnswered(i, b) ==
  /\ streams' = [streams EXCEPT
                   ![i].body = b, ![i].wire = b, ![i].buffer = <<>>,
                   ![i].pc = "read"]
  /\ UNCHANGED <<adapter, oneCall>>

CallFetched(i) ==
  /\ streams[i].pc = "fetch"
  /\ \/ /\ streams[i].generator = "doGenerateContentStream"
        /\ \E b \in ConcurrentGenerateBodies : CallAnswered(i, b)
     \/ /\ streams[i].generator = "doGenerateContentStreamChat"
        /\ \E b \in ConcurrentChatBodies : CallAnswered(i, b)

\* await reader.read() of call i: end-of-stream, or a chunk that is added
\* to the call's buffer and split
CallRead(i) ==
  /\ streams[i].pc = "read"
  /\ \/ /\ streams[i].wire = <<>>
        /\ streams' = [streams EXCEPT
                         ![i].result = Returned("end of stream"),
                         ![i].pc = "done",
                         ![i].demand = FALSE]
     \/ \E n \in 1..Len(streams[i].wire) :
          LET segments == Split(BufferOf(i) \o SubSeq(streams[i].wire, 1, n)) IN
          streams' = [streams EXCEPT
                        ![i].wire = SubSeq(@, n + 1, Len(@)),
                        ![i].buffer = PoppedBuffer(segments),
                        ![i].lines = CompleteLines(segments),
                        ![i].pc = IF CompleteLines(segments) = <<>>
                                  THEN "read" ELSE "lines"]
  /\ UNCHANGED <<adapter, oneCall>>

\* one turn of the for loop of call i
CallLine(i) ==
  /\ streams[i].pc = "lines" /\ streams[i].demand /\ streams[i].lines # <<>>
  /\ LET line == Head(streams[i].lines)
         gen == streams[i].generator
     IN
     IF Trim(line) # <<>> /\ LineResponse(gen, line).ok
     THEN streams' = [streams EXCEPT
                        ![i].yielded = Append(@, LineResponse(gen, line).value),
                        ![i].demand = FALSE,
                        ![i].lines = Tail(@)]
     ELSE streams' = [streams EXCEPT
                        ![i].lines = Tail(@),
                        ![i].pc = IF Tail(streams[i].lines) = <<>>
                                  THEN "read" ELSE "lines"]
  /\ UNCHANGED <<adapter, oneCall>>

\* the for loop of call i is over: back to its read
CallLoopEnd(i) ==
  /\ streams[i].pc = "lines" /\ streams[i].demand /\ streams[i].lines = <<>>
  /\ streams' = [streams EXCEPT ![i].pc = "read"]
  /\ UNCHANGED <<adapter, oneCall>>

\* the adapter was constructed with some configuration
ConcurrentInit ==
  /\ NoCallYet
  /\ adapter \in { OllamaContentGenerator(config) : config \in Configs }

ConcurrentNext ==
  \E i \in Callers :
    \/ \E req \in ConcurrentRequests : CallStream(i, req)
    \/ CallPull(i)
    \/ CallStart(i)
    \/ CallFetched(i)
    \/ CallRead(i)
    \/ CallLine(i)
    \/ CallLoopEnd(i)

ConcurrentSpec == ConcurrentInit /\ [][ConcurrentNext]_vars

(***************************************************************************)
(* Properties.                                                             *)
(***************************************************************************)
\* the function declarations a request carries, over all of its tools
DeclaredFunctions(req) ==
  IF req.config.tools = <<>> THEN <<>>
  ELSE Concat([i \in 1..Len(req.config.tools[1]) |->
                 IF "functionDeclarations" \in DOMAIN req.config.tools[1][i]
                 THEN req.config.tools[1][i].functionDeclarations
                 ELSE <<>>])

Generating == op \in {"generateContent", "generateContentStream"}

\* the call has sent its HTTP request
Sent == pc \notin {"idle", "created"}

OnlySentTo(path) ==
  /\ \A i \in 1..Len(http) : http[i].method = "POST" /\ http[i].path = path
  /\ Sent => Len(http) = 1

\* C1: a request that carries no tool declarations makes generateContent and
\* generateContentStream send their request to POST /api/generate, and
\* nothing is ever sent to /api/chat.
C1_NoDeclarationsUseGenerate ==
  (Generating /\ DeclaredFunctions(request) = <<>>) => OnlySentTo("/api/generate")

\* C1, where the request has no tools list or an empty one: the request
\* goes to POST /api/generate.
C1_NoToolsUseGenerate ==
  (Generating /\ ~hasTools(request)) => OnlySentTo("/api/generate")

\* a tool with no function declarations: the call went to /api/chat
C1_EmptyToolSentToChat ==
  /\ Generating /\ Sent
  /\ DeclaredFunctions(request) = <<>>
  /\ http[1].path = "/api/chat"

\* C2: a request that carries one or more tool declarations makes
\* generateContent and generateContentStream send their request to
\* POST /api/chat, and nothing is ever sent to /api/generate.
C2_DeclarationsUseChat ==
  (Generating /\ DeclaredFunctions(request) # <<>>) => OnlySentTo("/api/chat")

\* a streaming call with one declared function has yielded from /api/chat
C2_Witness ==
  /\ op = "generateContentStream"
  /\ Len(DeclaredFunctions(request)) = 1
  /\ http # <<>> /\ http[1].path = "/api/chat"
  /\ yielded # <<>>

Streaming == op = "generateContentStream"

\* the generator returned: the body was read to its end
EndOfStream == Streaming /\ pc = "done" /\ result.kind = "returned"

IsPrefix(s, t) == Len(s) <= Len(t) /\ SubSeq(t, 1, Len(s)) = s

\* the line is one the loop yields a response for
Yields(gen, line) == Trim(line) # <<>> /\ LineResponse(gen, line).ok

\* what the loop yields for a list of complete lines
RECURSIVE Responses(_, _)
Responses(gen, ls) ==
  IF ls = <<>> THEN <<>>
  ELSE (IF Yields(gen, Head(ls))
        THEN <<LineResponse(gen, Head(ls)).value>>
        ELSE <<>>) \o Responses(gen, Tail(ls))

\* what the stream yields when the whole body arrives as one chunk
OneChunk(gen, b) == Responses(gen, CompleteLines(Split(b)))

\* C3: streaming decode is invariant under chunk fragmentation: however the
\* body is cut into chunks, the stream yields the records it yields when the
\* body arrives as one chunk, in the same order (a prefix of them while it
\* runs, all of them when it has read to the end).
C3_FragmentationInvariant ==
  Streaming =>
    /\ IsPrefix(yielded, OneChunk(generator, body))
    /\ EndOfStream => yielded = OneChunk(generator, body)

\* a record was yielded and the chunk boundary cut the next line in two
C3_Witness ==
  /\ Streaming /\ pc = "read"
  /\ Len(yielded) = 1
  /\ buffer = <<"{", "r">>
  /\ wire # <<>> /\ Head(wire) = "}"

\* a complete line that is not blank and fails to JSON-decode
Malformed(line) == Trim(line) # <<>> /\ ~JSONParse(line).ok

\* the place in the output of the response of the j-th line
Rank(gen, ls, j) == Cardinality({ k \in 1..j : Yields(gen, ls[k]) })

\* C4: a complete line that fails to JSON-decode is skipped without ending
\* the stream: the stream never fails with the decode error, and every
\* well-formed line that comes after a malformed one is yielded, in order.
C4_MalformedLineSkipped ==
  Streaming =>
    /\ \A i \in 1..Len(reported) : reported[i].error # SyntaxError
    /\ result.kind = "thrown" =>
         result.message[Len(result.message)] # SyntaxError.message[1]
    /\ EndOfStream =>
         LET ls == CompleteLines(Split(body)) IN
         \A i \in 1..Len(ls) : \A j \in (i + 1)..Len(ls) :
           (Malformed(ls[i]) /\ Yields(generator, ls[j]))
             => /\ Rank(generator, ls, j) <= Len(yielded)
                /\ yielded[Rank(generator, ls, j)]
                     = LineResponse(generator, ls[j]).value

\* a stream whose first line was malformed ended after yielding its second
C4_Witness ==
  /\ EndOfStream
  /\ LET ls == CompleteLines(Split(body)) IN
     /\ Len(ls) = 2
     /\ Malformed(ls[1])
     /\ Yields(generator, ls[2])
  /\ Len(yielded) = 1

\* the record holds a tool call whose string arguments are not JSON
UnparsableArguments(record) ==
  /\ Has(record, "message")
  /\ Has(Get(record, "message"), "tool_calls")
  /\ \E i \in 1..Len(Get(Get(record, "message"), "tool_calls")) :
       ~ParsedArguments(Get(Get(Get(Get(record, "message"), "tool_calls")[i],
                                "function"), "arguments")).ok

\* C5: on the chat path a record with a tool call whose string arguments do
\* not parse makes generateContent and generateContentStream fail: the call
\* never ends normally having received such a record.
C5_UnparsableArgumentsFail ==
  /\ (op = "generateContent" /\ pc = "done" /\ http[1].path = "/api/chat"
        /\ UnparsableArguments(answer))
       => result.kind = "thrown"
  /\ (EndOfStream /\ generator = "doGenerateContentStreamChat")
       => \A line \in { CompleteLines(Split(body))[i] :
                          i \in 1..Len(CompleteLines(Split(body))) } :
            JSONParse(line).ok => ~UnparsableArguments(JSONParse(line).value)

\* the backend call failed: fetch rejected or answered with a non-2xx status
BackendFailed == fetched.settled /\ (fetched.rejected \/ ~Ok(fetched.status))

\* the error the failed call raised
BackendError ==
  IF fetched.rejected THEN fetched.error ELSE ApiError(fetched.status)

\* s occurs in t
IsInfix(s, t) ==
  \E k \in 0..(Len(t) - Len(s)) : SubSeq(t, k + 1, k + Len(s)) = s

\* C6: when the backend call of generateContent, generateContentStream or
\* embedContent fails, the error reaches the error sink exactly once, before
\* the operation fails; the operation fails with a message that contains the
\* original message; no response is returned or yielded for the failed call.
C6_BackendFailureReported ==
  op \in {"generateContent", "generateContentStream", "embedContent"} =>
    /\ Len(reported) <= 1
    /\ result.kind = "returned" => reported = <<>>
    /\ result.kind = "thrown" =>
         /\ Len(reported) = 1
         /\ IsInfix(reported[1].error.message, result.message)
    /\ BackendFailed =>
         /\ pc \in {"reported", "done"}
         /\ Len(reported) = 1
         /\ reported[1].error = BackendError
         /\ pc = "reported" => result = NoResult
         /\ pc = "done" =>
              /\ result.kind = "thrown"
              /\ IsInfix(BackendError.message, result.message)
         /\ yielded = <<>>

\* a streaming call on the chat path answered with 500 has failed, with the
\* error reported, the status in the message and nothing yielded
C6_Witness ==
  /\ op = "generateContentStream"
  /\ generator = "doGenerateContentStreamChat"
  /\ fetched = Resolved("500")
  /\ pc = "done"
  /\ result = Thrown(<<"Failed to stream chat content with Ollama: ",
                       "Ollama API error: ", "500">>)
  /\ Len(reported) = 1
  /\ yielded = <<>>

\* the signal option of the HTTP call is the request's cancellation signal
SignalForwarded == (Generating /\ Sent) => http[1].signal = Signal(request)

\* C7: the caller's cancellation signal is handed to the HTTP call, and once
\* it is cancelled during a stream the stream yields no further record.
C7_NoYieldAfterCancel ==
  [][ /\ SignalForwarded
      /\ (Streaming /\ aborted) => yielded' = yielded ]_vars

\* the signal was forwarded, the stream was cancelled, and a record decoded
\* before the cancellation is about to be yielded after it
C7_YieldedAfterCancel ==
  /\ Streaming /\ aborted
  /\ pc = "lines" /\ demand
  /\ http[1].signal = "caller"
  /\ lines # <<>> /\ Yields(generator, Head(lines))

\* generateContent returned a response on the given path
ReturnedFrom(path) ==
  /\ op = "generateContent" /\ pc = "done"
  /\ http[1].path = path
  /\ result.kind = "returned"

\* what a tool call's arguments become: parsed when a string, else as they are
ExpectedArgs(arguments) ==
  IF arguments.typeof = "string" THEN JSONParse(arguments.chars).value
  ELSE arguments.value

\* the response is the translation of the chat record
ChatTranslation(record, response) ==
  LET message == Get(record, "message")
      content == Get(message, "content")
      calls == IF Has(message, "tool_calls")
               THEN Get(message, "tool_calls") ELSE <<>>
      texts == IF content # "" THEN 1 ELSE 0
  IN
  /\ Len(response.candidates) = 1
  /\ LET parts == response.candidates[1].content.parts IN
     /\ Len(parts) = texts + Len(calls)
     /\ content # "" => parts[1] = [text |-> content]
     /\ \A i \in 1..Len(calls) :
          parts[texts + i] =
            [functionCall |->
               [name |-> Get(Get(calls[i], "function"), "name"),
                args |-> ExpectedArgs(Get(Get(calls[i], "function"),
                                          "arguments"))]]

\* C8: the translation of a chat record has exactly one candidate, whose
\* parts are one Text part iff the content is non-empty, then one
\* FunctionCall part per tool call, in order, with the call's name and its
\* arguments (parsed when they came as a string, unchanged otherwise).
C8_ChatRecordTranslation ==
  /\ ReturnedFrom("/api/chat") => ChatTranslation(answer, result.value)
  /\ (Streaming /\ generator = "doGenerateContentStreamChat") =>
       LET ls == SelectSeq(CompleteLines(Split(body)),
                           LAMBDA l : Yields(generator, l))
       IN \A i \in 1..Len(yielded) :
            ChatTranslation(JSONParse(ls[i]).value, yielded[i])

\* empty text and one tool call with string arguments: no Text part and one
\* FunctionCall part with the parsed arguments
C8_Witness ==
  /\ ReturnedFrom("/api/chat")
  /\ Get(answer, "message")
       = Message("", <<ToolCall("g", StringArguments(<<"{", "k", "}">>))>>)
  /\ result.value.candidates[1].content.parts
       = << [functionCall |-> [name |-> "g", args |-> << <<"k", "v">> >>]] >>

\* C9: a successful non-streaming completion has one candidate (index 0, role
\* model) with one Text part, the backend's response text; its finish reason
\* is STOP when done is true and MAX_TOKENS otherwise; usage metadata is
\* always there, its total the sum of the two counts, an absent one being 0.
C9_CompletionResponse ==
  ReturnedFrom("/api/generate") =>
    LET response == result.value IN
    /\ Len(response.candidates) = 1
    /\ response.candidates[1].index = 0
    /\ response.candidates[1].content.role = "model"
    /\ response.candidates[1].content.parts
         = << [text |-> Get(answer, "response")] >>
    /\ response.candidates[1].finishReason
         = IF Has(answer, "done") /\ Get(answer, "done") = TRUE
           THEN "STOP" ELSE "MAX_TOKENS"
    /\ Len(response.usageMetadata) = 1
    /\ response.usageMetadata[1].totalTokenCount
         = (IF Has(answer, "prompt_eval_count")
            THEN Get(answer, "prompt_eval_count") ELSE 0)
           + (IF Has(answer, "eval_count") THEN Get(answer, "eval_count") ELSE 0)

\* response "Hello, world!", done, counts 10 and 5: STOP and a total of 15
C9_Witness ==
  /\ ReturnedFrom("/api/generate")
  /\ answer = GenerateRecord("Hello, world!", <<TRUE>>, <<10>>, <<5>>)
  /\ result.value.candidates[1].finishReason = "STOP"
  /\ result.value.usageMetadata[1]
       = [promptTokenCount |-> <<10>>, candidatesTokenCount |-> <<5>>,
          totalTokenCount |-> 15]

\* C10: getBestAvailableModel never throws and never returns an empty
\* identifier, whatever the backend does; with no model available it returns
\* the default identifier.
C10_BestModelTotal ==
  (op = "getBestAvailableModel" /\ pc = "done") =>
       /\ getBestAvailableModel(Returns(<<>>)) = Returns(DEFAULT_OLLAMA_MODEL)
       /\ result.kind = "returned"
       /\ ~Falsy(result.value)
       /\ listModels(answer).value = <<>> => result.value = DEFAULT_OLLAMA_MODEL

\* the inventory's only entry has an empty name: the default is returned
C10_Witness ==
  /\ op = "getBestAvailableModel" /\ pc = "done"
  /\ answer = TagsAnswer(FALSE, "200", TagsBody(TRUE, TRUE, <<ModelEntry("")>>))
  /\ result = Returned(DEFAULT_OLLAMA_MODEL)

\* a directory call has ended
DirectoryDone(name) == op = name /\ pc = "done"

\* the backend answered the inventory request with a list of models
GoodInventory(tags) ==
  /\ ~tags.rejected /\ Ok(tags.status)
  /\ tags.json.decodes /\ tags.json.hasModels
  /\ \A i \in 1..Len(tags.json.models) : ~tags.json.models[i].null

\* the names of the inventory, in the backend's order
InventoryNames(tags) ==
  [i \in 1..Len(tags.json.models) |-> tags.json.models[i].name]

\* an inventory answer that lists the given names
Inventory(names) ==
  TagsAnswer(FALSE, "200",
             TagsBody(TRUE, TRUE, [i \in 1..Len(names) |-> ModelEntry(names[i])]))

C13_ListModelsTotal ==
  DirectoryDone("listModels") =>
    /\ result.kind = "returned"
    /\ result.value = IF GoodInventory(answer) THEN InventoryNames(answer)
                      ELSE <<>>

\* two installed models come back in the backend's order
C13_Witness ==
  /\ DirectoryDone("listModels")
  /\ answer = Inventory(<<"custom:1b", DEFAULT_OLLAMA_MODEL>>)
  /\ result = Returned(<<"custom:1b", DEFAULT_OLLAMA_MODEL>>)

\* C16: getAvailableModels gives the recommended list only when the backend
\* is unreachable; when the backend answers the inventory request it gives
\* exactly the installed models the backend reported.
C16_RecommendedOnlyWhenUnreachable ==
  DirectoryDone("getAvailableModels") =>
    /\ GoodInventory(answer) => result = Returned(InventoryNames(answer))
    /\ result = Returned(RECOMMENDED_OLLAMA_MODELS) => answer.rejected

\* the backend answered with an empty inventory and the recommended list
\* came back
C16_EmptyInventoryFallsBack ==
  /\ DirectoryDone("getAvailableModels")
  /\ answer = Inventory(<<>>)
  /\ result = Returned(RECOMMENDED_OLLAMA_MODELS)

\* the probe got a 2xx answer before its timeout
ProbeSucceeded == fetched.settled /\ ~fetched.rejected /\ Ok(fetched.status)

\* C12: createOllamaContentGenerator returns a generator only if the probe
\* GET {host}/api/tags got a 2xx answer before its 2-second timeout; on a
\* transport error, a timeout or a non-2xx status isAvailable returns false
\* without throwing and construction fails with an error that names the
\* configured host, the default host when none is configured.
C12_ProbeGatesConstruction ==
  /\ (op \in {"isAvailable", "createOllamaContentGenerator"} /\ http # <<>>) =>
       /\ Len(http) = 1
       /\ http[1].method = "GET" /\ http[1].path = "/api/tags"
       /\ http[1].timeout = 2000
       /\ http[1].host = IF request.ollamaHost \in {<<>>, <<"">>}
                         THEN "http://localhost:11434"
                         ELSE request.ollamaHost[1]
  /\ (op = "isAvailable" /\ pc = "done") =>
       /\ result.kind = "returned"
       /\ result.value = ProbeSucceeded
  /\ (op = "createOllamaContentGenerator" /\ pc = "done") =>
       /\ result.kind = "returned" => ProbeSucceeded
       /\ ~ProbeSucceeded =>
            /\ result.kind = "thrown"
            /\ IsInfix(<<http[1].host>>, result.message)

\* no host configured and the probe answered 500: construction failed with
\* an error that names the default host
C12_Witness ==
  /\ op = "createOllamaContentGenerator" /\ pc = "done"
  /\ request.ollamaHost = <<>>
  /\ fetched = Resolved("500")
  /\ result.kind = "thrown"
  /\ IsInfix(<<"http://localhost:11434">>, result.message)

\* C14: countTokens returns ceil(L / 4), L being the length of the
\* completion-path prompt of the request's contents, with or without tools
\* in the request, and it sends no HTTP request.
C14_CountTokensCeiling ==
  (op = "countTokens" /\ pc = "done") =>
    /\ http = <<>>
    /\ result.kind = "returned"
    /\ LET L == Len(convertToOllamaFormat(request).prompt)
           n == result.value.totalTokens
       IN /\ n \in Nat
          /\ 4 * n >= L
          /\ 4 * n < L + 4

\* a single user turn "Hello world", with tools in the request: 3 tokens
C14_Witness ==
  /\ op = "countTokens" /\ pc = "done"
  /\ request.contents = ArrayContents(<<Turn("user", <<TextPart(HelloWorld)>>)>>)
  /\ request.config.tools # <<>>
  /\ Len(convertToOllamaFormat(request).prompt) = 11
  /\ result = Returned([totalTokens |-> 3])

\* C15: embedContent sends exactly one POST to /api/embeddings, for one text
\* or a list of texts, and on success returns one vector per input text; for
\* one input text and a single-embedding answer it returns that one vector.
C15_OneVectorPerInput ==
  op = "embedContent" =>
    /\ Sent =>
         /\ Len(http) = 1
         /\ http[1].method = "POST" /\ http[1].path = "/api/embeddings"
    /\ (pc = "done" /\ result.kind = "returned") =>
         /\ Len(result.value.embeddings) = Len(request.contents.items)
         /\ (Len(request.contents.items) = 1 /\ Has(answer, "embedding"))
              => result.value.embeddings
                   = << [values |-> Get(answer, "embedding")] >>

\* two texts were sent and the single-embedding answer gave one vector
C15_TwoTextsOneVector ==
  /\ op = "embedContent" /\ pc = "done"
  /\ Len(request.contents.items) = 2
  /\ answer = << <<"embedding", Vector1>> >>
  /\ result = Returned([embeddings |-> << [values |-> Vector1] >>])

\* embedContent, as far as the code ensures it: one POST to /api/embeddings,
\* and on success the vectors of the answer, in the answer's order
C15_VectorsOfTheAnswer ==
  op = "embedContent" =>
    /\ Sent =>
         /\ Len(http) = 1
         /\ http[1].method = "POST" /\ http[1].path = "/api/embeddings"
    /\ (pc = "done" /\ result.kind = "returned") =>
         result.value.embeddings =
           IF Has(answer, "embeddings")
           THEN [i \in 1..Len(Get(answer, "embeddings")) |->
                   [values |-> Get(answer, "embeddings")[i]]]
           ELSE IF Has(answer, "embedding")
             THEN << [values |-> Get(answer, "embedding")] >>
           ELSE <<>>

\* the complete lines the loop yields a response for, in order
RECURSIVE YieldingLines(_, _)
YieldingLines(gen, ls) ==
  IF ls = <<>> THEN <<>>
  ELSE (IF Yields(gen, Head(ls)) THEN <<Head(ls)>> ELSE <<>>)
         \o YieldingLines(gen, Tail(ls))

\* the record the i-th yielded response was decoded from
SourceRecord(i) ==
  JSONParse(YieldingLines(generator, CompleteLines(Split(body)))[i]).value

\* C17: on both streaming paths a yielded response has the finish reason
\* STOP exactly when its record has done = true and has none otherwise
\* (never MAX_TOKENS), and it has usage metadata exactly when done = true.
C17_StreamFinishReason ==
  Streaming =>
    \A i \in 1..Len(yielded) :
      LET done == Has(SourceRecord(i), "done")
                    /\ Get(SourceRecord(i), "done") = TRUE
          candidate == yielded[i].candidates[1]
      IN
      /\ Len(yielded[i].candidates) = 1
      /\ candidate.finishReason = "STOP" <=> done
      /\ ~done => candidate.finishReason = undefined
      /\ candidate.finishReason # "MAX_TOKENS"
      /\ yielded[i].usageMetadata # <<>> <=> done

\* a stream ended after a record with done = false, yielded with no finish
\* reason and no usage, and a record with done = true, yielded with both
C17_Witness ==
  /\ EndOfStream
  /\ Len(yielded) = 2
  /\ Has(SourceRecord(1), "done") /\ Get(SourceRecord(1), "done") = FALSE
  /\ yielded[1].candidates[1].finishReason = undefined
  /\ yielded[1].usageMetadata = <<>>
  /\ Has(SourceRecord(2), "done") /\ Get(SourceRecord(2), "done") = TRUE
  /\ yielded[2].candidates[1].finishReason = "STOP"
  /\ yielded[2].usageMetadata # <<>>

\* the same on the chat path: a text record, then a final tool-call record
C17_ChatWitness ==
  /\ EndOfStream /\ generator = "doGenerateContentStreamChat"
  /\ Len(yielded) = 2
  /\ yielded[1].candidates[1].finishReason = undefined
  /\ yielded[1].usageMetadata = <<>>
  /\ yielded[2].candidates[1].finishReason = "STOP"
  /\ yielded[2].usageMetadata # <<>>

\* the text after the last newline of s (all of s when it has none)
RECURSIVE AfterLastNewline(_)
AfterLastNewline(s) ==
  IF s = <<>> \/ s[Len(s)] = "\n" THEN <<>>
  ELSE Append(AfterLastNewline(SubSeq(s, 1, Len(s) - 1)), s[Len(s)])

NewlineCount(s) == Cardinality({ i \in 1..Len(s) : s[i] = "\n" })

\* C18: at end-of-stream what is left in the buffer (the data after the
\* last newline of the body) is discarded: it is still in the buffer when
\* the generator returns, it was never decoded or yielded, and the stream
\* yielded what the body gives with that remainder cut off.
C18_RemainderDiscarded ==
  EndOfStream =>
    LET rest == AfterLastNewline(body) IN
    /\ buffer = rest
    /\ Len(yielded) <= NewlineCount(body)
    /\ yielded = OneChunk(generator, SubSeq(body, 1, Len(body) - Len(rest)))

\* a stream ended with a well-formed record after the last newline: the
\* record before it was yielded, the last one was not
C18_Witness ==
  /\ EndOfStream
  /\ body = Line(<<"r">>) \o <<"{", "r", "}">>
  /\ buffer = <<"{", "r", "}">>
  /\ JSONParse(buffer).ok
  /\ Len(yielded) = 1

\* the step is a network read: reader.read() took bytes of the body
NetworkRead == pc = "read" /\ Len(wire') < Len(wire)

\* the decoded lines not yet gone through by the for loop that will yield
UndeliveredRecords ==
  Len(YieldingLines(generator, lines))

\* C19: streaming is consumer-paced: a network read is issued only when the
\* consumer has asked for the next record and no record decoded from the
\* previous chunk is left undelivered, a record is yielded only to a
\* consumer that asked for it, and so the undelivered decoded records are
\* always the rest of the one chunk read last.
C19_ConsumerPaced ==
  [][Streaming =>
       /\ NetworkRead => (demand /\ lines = <<>> /\ UndeliveredRecords = 0)
       /\ yielded' # yielded =>
            /\ demand
            /\ Len(yielded') = Len(yielded) + 1
            /\ wire' = wire
       /\ (lines' # lines /\ lines # <<>>) => lines' = Tail(lines)]_vars

\* the consumer holds one record and has not asked for the next: the body
\* has more bytes, and they are not being read
C19_Witness ==
  /\ Streaming /\ pc = "lines" /\ ~demand
  /\ Len(yielded) = 1
  /\ wire # <<>>

\* the consumer holds one record and has not asked for the next: a second
\* record decoded from the same chunk waits
C19_RecordWaits ==
  /\ Streaming /\ pc = "lines" /\ ~demand
  /\ Len(yielded) = 1
  /\ UndeliveredRecords = 1

\* a request went to /api/chat
ChatSent == Generating /\ Sent /\ http[1].path = "/api/chat"

\* the places of the function-response parts of a turn
FunctionResponseParts(turn) ==
  IF ~IsString(turn) /\ HasParts(turn)
  THEN { p \in 1..Len(turn.parts) : "functionResponse" \in DOMAIN turn.parts[p] }
  ELSE {}

\* the i-th function-response part of a turn
NthFunctionResponse(turn, i) ==
  turn.parts[CHOOSE p \in FunctionResponseParts(turn) :
               Cardinality({ q \in FunctionResponseParts(turn) : q <= p }) = i]

\* the number of messages the first j items of the contents give
MessagesOfFirst(req, j) ==
  Len(convertToChatFormat(
        [req EXCEPT !.contents =
           ArrayContents(SubSeq(ContentList(req.contents), 1, j))]).messages)

\* C20: in the messages of a chat request, a turn with one or more
\* function-response parts gives exactly one tool message per
\* function-response part, in part order, whose content is the response
\* value itself when it is a string and its JSON serialisation otherwise,
\* and gives no message for the turn's plain text.
C20_ToolMessagePerFunctionResponse ==
  ChatSent =>
    LET contents == ContentList(request.contents)
        messages == http[1].messages
    IN
    \A j \in 1..Len(contents) :
      LET n == Cardinality(FunctionResponseParts(contents[j]))
          first == MessagesOfFirst(request, j - 1)
      IN
      n > 0 =>
        /\ MessagesOfFirst(request, j) = first + n
        /\ Len(messages) >= first + n
        /\ \A i \in 1..n :
             LET value == ResponseValue(
                            NthFunctionResponse(contents[j], i).functionResponse)
             IN
             /\ messages[first + i].role = "tool"
             /\ messages[first + i].content =
                  IF value.typeof = "string" THEN value.chars
                  ELSE JSONStringify(value)

\* a chat request was sent for a turn with a text and a function response
\* whose output is a string, then a turn with four function responses and a
\* text: five tool messages, the string as it is, the objects serialised,
\* and no message for either text
C20_Witness ==
  /\ ChatSent /\ op = "generateContent"
  /\ Len(ContentList(request.contents)) = 2
  /\ Cardinality(FunctionResponseParts(ContentList(request.contents)[1])) = 1
  /\ extractTextFromParts(ContentList(request.contents)[1].parts) = <<"o", "k">>
  /\ Cardinality(FunctionResponseParts(ContentList(request.contents)[2])) = 4
  /\ extractTextFromParts(ContentList(request.contents)[2].parts) = <<"o", "k">>
  /\ http[1].messages =
       << [role |-> "tool", content |-> Sunny],
          [role |-> "tool",
           content |-> <<"{", "\"", "k", "\"", ":", "\"", "v", "\"", "}">>],
          [role |-> "tool", content |-> <<"{", "}">>],
          [role |-> "tool",
           content |-> <<"{", "\"", "sky", "\"", ":",
                         "\"", "\\", "\"", "a", "\\", "\"", "\"", ",",
                         "\"", "t", "\"", ":", "\"", "2", "\"", "}">>],
          [role |-> "tool",
           content |-> <<"{", "\"", "output", "\"", ":", "\"", "\"", "}">>] >>

\* the text the system instruction of the request resolves to
ResolvedSystemText ==
  IF "systemInstruction" \in DOMAIN request.config
  THEN SystemText(request.config) ELSE <<>>

\* the messages a chat request holds after its system message
TurnMessagesSent ==
  IF ResolvedSystemText # <<>> THEN Tail(http[1].messages)
  ELSE http[1].messages

\* the number of messages the first j turns gave
TurnMessagesOfFirst(j) ==
  MessagesOfFirst(request, j) - (IF ResolvedSystemText # <<>> THEN 1 ELSE 0)

\* a Content with parts that hold no function response
PlainTurn(turn) ==
  ~IsString(turn) /\ HasParts(turn) /\ FunctionResponseParts(turn) = {}

\* C21: the chat message list keeps the conversation order: it starts with
\* one message for the system instruction exactly when the instruction
\* resolves to a non-empty text; after it the messages of the turns follow
\* turn by turn, those of an earlier turn before those of a later one; a
\* bare string gives one user message, a model turn is sent as assistant,
\* and a turn with no text and no function response gives no message.
C21_ConversationOrder ==
  ChatSent =>
    LET contents == ContentList(request.contents)
        messages == http[1].messages
        sent == TurnMessagesSent
    IN
    /\ ResolvedSystemText # <<>> =>
         /\ messages # <<>>
         /\ messages[1] = [role |-> "system", content |-> ResolvedSystemText]
    /\ \A i \in 1..Len(sent) :
         sent[i].role = "system" =>
           \E j \in 1..Len(contents) :
             PlainTurn(contents[j]) /\ contents[j].role = "system"
    /\ TurnMessagesOfFirst(0) = 0
    /\ TurnMessagesOfFirst(Len(contents)) = Len(sent)
    /\ \A j \in 1..Len(contents) :
         LET turn == contents[j]
             from == TurnMessagesOfFirst(j - 1)
             upto == TurnMessagesOfFirst(j)
         IN
         /\ from <= upto /\ upto <= Len(sent)
         /\ IsString(turn) =>
              /\ upto = from + 1
              /\ sent[upto] = [role |-> "user", content |-> turn.chars]
         /\ (PlainTurn(turn) /\ extractTextFromParts(turn.parts) # <<>>) =>
              /\ upto = from + 1
              /\ sent[upto].content = extractTextFromParts(turn.parts)
              /\ sent[upto].role =
                   IF turn.role = "model" THEN "assistant" ELSE turn.role
         /\ (PlainTurn(turn) /\ extractTextFromParts(turn.parts) = <<>>) =>
              upto = from

\* a chat request was sent for a model turn followed by a bare string: the
\* assistant message comes before the user message
C21_Witness ==
  /\ ChatSent
  /\ Len(ContentList(request.contents)) = 2
  /\ ResolvedSystemText = <<>>
  /\ http[1].messages =
       << [role |-> "assistant", content |-> <<"Y", "o">>],
          [role |-> "user", content |-> Hello] >>

\* a chat request was sent with a system instruction given as a Content
\* with two text parts: the system message comes first
C21_SystemFirst ==
  /\ ChatSent
  /\ ResolvedSystemText = <<"B", "e", "!">>
  /\ http[1].messages =
       << [role |-> "system", content |-> <<"B", "e", "!">>],
          [role |-> "assistant", content |-> <<"Y", "o">>] >>

\* a chat request was sent with an empty system instruction and a turn that
\* has no text and no function response: it holds no message at all
C21_NothingToSend ==
  /\ ChatSent
  /\ "systemInstruction" \in DOMAIN request.config
  /\ Len(ContentList(request.contents)) = 1
  /\ http[1].messages = <<>>

\* the entry the claim gives for a declared function
ExpectedTool(func) ==
  [type |-> "function",
   function |->
     [name |-> func.name,
      description |-> IF "description" \in DOMAIN func
                      THEN func.description ELSE "",
      parameters |-> IF "parameters" \in DOMAIN func /\ func.parameters # ""
                     THEN func.parameters ELSE "{}"]]

\* C22, as the spec states it: the backend tool list holds exactly one entry
\* {type: "function", function: {name, description, parameters}} for every
\* declared function of every tool, in declaration order, with the
\* description defaulting to the empty string and the parameters to the
\* empty object; there are as many entries as declared functions.
C22_OneToolPerDeclaration ==
  ChatSent =>
    LET declared == DeclaredFunctions(request)
        tools == http[1].tools[1]
    IN
    /\ Len(tools) = Len(declared)
    /\ \A i \in 1..Len(declared) : tools[i] = ExpectedTool(declared[i])

\* the places of the declared functions that have a non-empty name
NamedFunctions(declared) ==
  { p \in 1..Len(declared) :
      "name" \in DOMAIN declared[p] /\ declared[p].name # "" }

\* the i-th declared function that has a non-empty name
NthNamedFunction(declared, i) ==
  declared[CHOOSE p \in NamedFunctions(declared) :
             Cardinality({ q \in NamedFunctions(declared) : q <= p }) = i]

\* C22, amended: the backend tool list holds exactly one entry for every
\* declared function that has a non-empty name, in declaration order, with
\* the same defaults; a declared function with no name has no entry, and
\* there are as many entries as declared functions with a name.
C22_OneToolPerNamedDeclaration ==
  ChatSent =>
    LET declared == DeclaredFunctions(request)
        tools == http[1].tools[1]
    IN
    /\ Len(tools) = Cardinality(NamedFunctions(declared))
    /\ \A i \in 1..Len(tools) :
         tools[i] = ExpectedTool(NthNamedFunction(declared, i))

\* a chat request was sent for a function declared with no name followed by
\* one with a name: the tool list holds the entry of the second alone
C22_Witness ==
  /\ ChatSent
  /\ Len(DeclaredFunctions(request)) = 2
  /\ Cardinality(NamedFunctions(DeclaredFunctions(request))) = 1
  /\ http[1].tools =
       << << [type |-> "function",
              function |-> [name |-> "get_weather",
                            description |-> "weather",
                            parameters |-> "schema"]] >> >>

\* a chat request was sent for three functions declared by two tools, two of
\* them with no description and no parameters: three entries, in order
C22_Defaults ==
  /\ ChatSent
  /\ http[1].tools =
       << << [type |-> "function",
              function |-> [name |-> "ping", description |-> "",
                            parameters |-> "{}"]],
             [type |-> "function",
              function |-> [name |-> "get_weather",
                            description |-> "weather",
                            parameters |-> "schema"]],
             [type |-> "function",
              function |-> [name |-> "get_time", description |-> "",
                            parameters |-> "{}"]] >> >>

\* the value the claim gives for a function response: the output member
\* whenever the payload has one, else the payload, else {}
ClaimedValue(functionResponse) ==
  IF functionResponse.response = <<>> THEN JSObject(<<>>)
  ELSE IF Has(functionResponse.response[1].members, "output")
    THEN Get(functionResponse.response[1].members, "output")
  ELSE functionResponse.response[1]

\* C23: extractFunctionResponses returns one {name, value} per
\* function-response part, in part order, where the value is the output
\* member whenever the payload holds one, whatever its value, the whole
\* payload otherwise, and {} when there is no payload.
C23_OutputPreferred ==
  ChatSent =>
    \A j \in 1..Len(ContentList(request.contents)) :
      LET turn == ContentList(request.contents)[j]
          n == Cardinality(FunctionResponseParts(turn))
      IN
      n > 0 =>
        /\ Len(extractFunctionResponses(turn.parts)) = n
        /\ \A i \in 1..n :
             extractFunctionResponses(turn.parts)[i] =
               [name |-> NthFunctionResponse(turn, i).functionResponse.name,
                response |->
                  ClaimedValue(NthFunctionResponse(turn, i).functionResponse)]

\* a chat request was sent for a function response whose output is the
\* empty string: the tool message holds the serialised payload, not the
\* output
C23_EmptyOutputIgnored ==
  /\ ChatSent
  /\ Len(ContentList(request.contents)) = 1
  /\ Cardinality(FunctionResponseParts(ContentList(request.contents)[1])) = 4
  /\ http[1].messages[4] =
       [role |-> "tool",
        content |-> <<"{", "\"", "output", "\"", ":", "\"", "\"", "}">>]

\* a request went to /api/generate
GenerateSent == Generating /\ Sent /\ http[1].path = "/api/generate"

Assistant == <<"A", "s", "s", "i", "s", "t", "a", "n", "t", ":", " ">>
Human == <<"H", "u", "m", "a", "n", ":", " ">>

\* what the claim has one item add to the prompt
ClaimedPiece(item) ==
  IF IsString(item) THEN item.chars \o <<"\n">>
  ELSE IF ~HasParts(item) THEN <<>>
  ELSE IF item.role = "user"
    THEN extractTextFromParts(item.parts) \o <<"\n">>
  ELSE IF item.role = "model"
    THEN Assistant \o extractTextFromParts(item.parts) \o <<"\n">> \o Human
  ELSE <<>>

\* C24: the completion-path prompt is the whitespace-trimmed concatenation,
\* in turn order, of a bare string and a newline, of a user turn's text and
\* a newline, and of "Assistant: <text>\nHuman: " for a model turn; a
\* request whose only turn is a user turn with text t has the prompt
\* trim(t), and the prompt never begins or ends with whitespace.
C24_CompletionPrompt ==
  GenerateSent =>
    LET contents == ContentList(request.contents)
        prompt == http[1].prompt
    IN
    /\ prompt = Trim(Concat([i \in 1..Len(contents) |->
                               ClaimedPiece(contents[i])]))
    /\ (/\ Len(contents) = 1
        /\ ~IsString(contents[1]) /\ HasParts(contents[1])
        /\ contents[1].role = "user")
         => prompt = Trim(extractTextFromParts(contents[1].parts))
    /\ prompt # <<>> =>
         /\ ~IsWhitespace(prompt[1])
         /\ ~IsWhitespace(prompt[Len(prompt)])

\* a request was sent for a user turn whose text ends with a space, followed
\* by a model turn: the prompt keeps the newline between them and loses the
\* space after "Human:"
C24_Witness ==
  /\ GenerateSent /\ op = "generateContent"
  /\ Len(ContentList(request.contents)) = 2
  /\ http[1].prompt =
       <<"H", "i", " ", "\n"        >> \o Assistant \o <<"Y", "o", "\n",
         "H", "u", "m", "a", "n", ":">>

\* a request was sent for the single user turn "Hello": the prompt is "Hello"
C24_Hello ==
  /\ GenerateSent
  /\ request.contents = ArrayContents(<<Turn("user", <<TextPart(Hello)>>)>>)
  /\ http[1].prompt = Hello

\* the installed list: the names of a good inventory, else nothing
Installed == IF GoodInventory(answer) THEN InventoryNames(answer) ELSE <<>>

\* the available set: the installed list when it is not empty, the
\* recommended list otherwise
Available == IF Installed # <<>> THEN Installed ELSE RECOMMENDED_OLLAMA_MODELS

\* the places of the recommended list that are in the available set
RecommendedAvailable ==
  { i \in 1..Len(RECOMMENDED_OLLAMA_MODELS) :
      Includes(Available, RECOMMENDED_OLLAMA_MODELS[i]) }

FirstRecommendedAvailable ==
  RECOMMENDED_OLLAMA_MODELS[CHOOSE i \in RecommendedAvailable :
                              \A j \in RecommendedAvailable : i <= j]

\* C25, as the spec states it: the available set is the installed list when
\* it is not empty and the recommended list otherwise; when the default
\* model is not available, getBestAvailableModel returns the first model of
\* the recommended list, in that list's order, that is available, and when
\* no recommended model is available, the first model of the available set.
C25_BestModelOrder ==
  /\ DirectoryDone("getAvailableModels") => result = Returned(Available)
  /\ (/\ DirectoryDone("getBestAvailableModel")
      /\ ~Includes(Available, DEFAULT_OLLAMA_MODEL))
       => result = IF RecommendedAvailable # {}
                   THEN Returned(FirstRecommendedAvailable)
                   ELSE Returned(Available[1])

\* C25, amended: the same, but when no recommended model is available and
\* the first model of the available set has an empty or missing name, the
\* default model is returned.
C25_BestModelOrderOrDefault ==
  /\ DirectoryDone("getAvailableModels") => result = Returned(Available)
  /\ (/\ DirectoryDone("getBestAvailableModel")
      /\ ~Includes(Available, DEFAULT_OLLAMA_MODEL))
       => result = IF RecommendedAvailable # {}
                   THEN Returned(FirstRecommendedAvailable)
                   ELSE IF Falsy(Available[1])
                     THEN Returned(DEFAULT_OLLAMA_MODEL)
                   ELSE Returned(Available[1])

\* two recommended models are installed, the later of the recommended list
\* first: the earlier of the recommended list is returned
C25_Witness ==
  /\ DirectoryDone("getBestAvailableModel")
  /\ answer = Inventory(<<"mistral:7b", "gemma2:2b">>)
  /\ result = Returned("gemma2:2b")

\* no recommended model is installed: the first installed model is returned
C25_FirstInstalled ==
  /\ DirectoryDone("getBestAvailableModel")
  /\ answer = Inventory(<<"custom:1b", "">>)
  /\ result = Returned("custom:1b")

\* C28: after the stream has yielded a response whose finish reason is STOP
\* it yields no further response, whatever the backend sends afterwards: a
\* response with the finish reason STOP is the last one yielded.
C28_NothingAfterStop ==
  Streaming =>
    \A i \in 1..Len(yielded) :
      yielded[i].candidates[1].finishReason = "STOP" => i = Len(yielded)

\* a record follows the record with done = true: both are yielded
C28_YieldedAfterStop ==
  /\ Streaming /\ Len(yielded) = 2
  /\ yielded[1].candidates[1].finishReason = "STOP"
  /\ yielded[2].candidates[1].finishReason = undefined

\* the chunks read so far, concatenated: what has left the wire
ReadSoFar == SubSeq(body, 1, Len(body) - Len(wire))

\* the lines ls, each followed by a newline, concatenated
RECURSIVE WithNewlines(_)
WithNewlines(ls) ==
  IF ls = <<>> THEN <<>>
  ELSE Head(ls) \o <<"\n">> \o WithNewlines(Tail(ls))

\* the stream is inside its read loop
InReadLoop == Streaming /\ pc \in {"read", "lines"}

\* a read that received a chunk and split the buffer
ChunkProcessed ==
  /\ Streaming /\ pc = "read" /\ pc' \in {"read", "lines"}
  /\ Len(wire') < Len(wire)

\* C29: after each read chunk has been processed the buffer contains no
\* newline, and the lines extracted so far, each followed by a newline,
\* followed by the buffer are the chunks read so far: the buffer is what
\* was read after the last newline, the lines extracted are what was read
\* before it, and each read adds to them exactly the buffer it found and the
\* chunk it read, nothing lost and nothing twice.
C29_BufferConservation ==
  /\ [](InReadLoop =>
          /\ \A i \in 1..Len(buffer) : buffer[i] # "\n"
          /\ buffer = AfterLastNewline(ReadSoFar)
          /\ \E k \in 0..Len(ReadSoFar) :
               WithNewlines(lines) \o buffer
                 = SubSeq(ReadSoFar, k + 1, Len(ReadSoFar)))
  /\ [][ChunkProcessed =>
          WithNewlines(lines') \o buffer'
            = buffer \o SubSeq(wire, 1, Len(wire) - Len(wire'))]_vars

\* a second read extracted one line after a first read had extracted one
C29_Witness ==
  /\ InReadLoop /\ pc = "lines" /\ Len(lines) = 1
  /\ Len(ReadSoFar) > Len(lines[1]) + 1 + Len(buffer)

\* a read ended one record and began the next: one line is extracted, the
\* buffer holds the start of the next record, the rest is still to come
C29_HalfRecord ==
  /\ InReadLoop /\ pc = "lines" /\ Len(lines) = 1
  /\ buffer # <<>> /\ wire # <<>>

\* C30: whenever generateContent or generateContentStream sends a request
\* to the chat endpoint, the tools field of the request body contains at
\* least one function schema, each with a non-empty name.
C30_ChatToolsNonEmpty ==
  ChatSent =>
    /\ http[1].tools # <<>>
    /\ Len(http[1].tools[1]) >= 1
    /\ \A i \in 1..Len(http[1].tools[1]) :
         http[1].tools[1][i].function.name # ""

\* a tool with an empty declaration list: the chat endpoint is called with
\* an empty tool list
C30_ChatWithoutTools ==
  /\ ChatSent
  /\ http[1].tools = << <<>> >>

\* the schemas that are sent all have a name
C30_SchemasNamed ==
  ChatSent =>
    \A i \in 1..Len(http[1].tools[1]) :
      http[1].tools[1][i].function.name \notin {"", undefined}

\* C27: if the backend answered 2xx, the reads eventually signal
\* end-of-stream and the consumer keeps pulling, the stream eventually
\* completes normally: from inside the read loop, either a read fails (an
\* error is reported) or the generator returns, with no error reported and
\* having yielded the responses of its records in the order of their lines.
C27_StreamCompletes ==
  /\ InReadLoop ~> (EndOfStream \/ reported # <<>>)
  /\ [](EndOfStream =>
          LET ls == YieldingLines(generator, CompleteLines(Split(body))) IN
          /\ reported = <<>>
          /\ Len(yielded) = Len(ls)
          /\ \A i \in 1..Len(ls) :
               yielded[i] = LineResponse(generator, ls[i]).value)

\* a stream of two records completed normally after yielding both
C27_Witness ==
  /\ EndOfStream /\ reported = <<>>
  /\ Len(yielded) = MaxLines
  /\ Ok(fetched.status)

\* what call i would yield if it ran alone: the responses of its body
YieldsAlone(i) == OneChunk(streams[i].generator, streams[i].body)

\* C26: for any interleaving of two simultaneous streams each call yields
\* exactly what it would if it ran alone (at every moment a prefix of it,
\* at its return all of it), each request was sent to the adapter's host
\* with the adapter's model, and no step modifies the adapter's host or
\* model.
C26_CallsIndependent ==
  /\ [](\A i \in Callers :
          /\ streams[i].pc \in {"read", "lines", "done"} =>
               /\ IsPrefix(streams[i].yielded, YieldsAlone(i))
               /\ streams[i].pc = "done" =>
                    /\ streams[i].yielded = YieldsAlone(i)
                    /\ streams[i].result = Returned("end of stream")
          /\ streams[i].sent # <<>> =>
               /\ streams[i].sent[1].host = adapter.ollamaHost
               /\ streams[i].sent[1].model = adapter.model)
  /\ [][adapter' = adapter]_vars

\* both calls are between two reads, each with yielded responses and with
\* the start of a line in its buffer
C26_Witness ==
  /\ \A i \in Callers :
       /\ streams[i].pc = "read"
       /\ streams[i].buffer # <<>>
       /\ streams[i].yielded # <<>>
       /\ streams[i].wire # <<>>
  /\ streams[1].generator # streams[2].generator

\* both calls returned after yielding two responses each
C26_BothReturned ==
  \A i \in Callers :
    /\ streams[i].pc = "done"
    /\ Len(streams[i].yielded) = 2

====
